---- MODULE Spec2Model ----
(***************************************************************************)
(* IEC 60870-5 core of go-iecp5: the ASDU identifier codec, the typed      *)
(* message builders and parsers of package asdu, modelled as a state       *)
(* machine whose actions are the calls of the build routines (Single,      *)
(* SingleCmd, InterrogationCmd, ...) on a Connect and the calls of the     *)
(* Get* parsers on the ASDU that was handed to Connect.Send.  The codec    *)
(* functions of the identifier fields and information elements, the APCI   *)
(* frames of package cs104 (newIFrame, newSFrame, newUFrame, parse) and    *)
(* Config.Valid are further calls, each applied to its arguments and       *)
(* leaving the value it returned in result.  A Clog of package clog is a    *)
(* second machine, SpecClog, whose actions are the calls of its methods.   *)
(*                                                                         *)
(* Bytes are integers 0..255, byte strings are sequences of bytes, Go      *)
(* errors are strings ("nil" for no error).                                *)
(***************************************************************************)
EXTENDS Integers, Sequences, FiniteSets, TLC

VARIABLES
    call,   \* the last routine called and its arguments
    ret,    \* the error that call returned ("nil": none)
    sent,   \* the ASDUs the call handed to Connect.Send, in order
    got,    \* what the last Get* parser returned for Head(sent)
    result, \* the value that call returned besides its error (<<>>: none)
    logger,     \* a clog.Clog: its provider and its enable flag
    forwarded,  \* the calls the providers received from logger, in order
    logCalls    \* the calls made on logger, in order

\* the variables of the calls of packages asdu and cs104, and of the logger
asduVars == <<call, ret, sent, got, result>>
clogVars == <<logger, forwarded, logCalls>>

vars == <<call, ret, sent, got, result, logger, forwarded, logCalls>>

\* the value of call: the routine, the TypeID argument of a command routine
\* (0 for the others) and the remaining arguments
Call(fn, typeID, args) == [fn |-> fn, typeID |-> typeID, args |-> args]

-----------------------------------------------------------------------------
(* Type identifications, asdu/identifier.go:28-163 *)
M_SP_NA_1 == 1
M_SP_TA_1 == 2
M_DP_NA_1 == 3
M_DP_TA_1 == 4
M_ST_NA_1 == 5
M_ST_TA_1 == 6
M_BO_NA_1 == 7
M_BO_TA_1 == 8
M_ME_NA_1 == 9
M_ME_TA_1 == 10
M_ME_NB_1 == 11
M_ME_TB_1 == 12
M_ME_NC_1 == 13
M_ME_TC_1 == 14
M_IT_NA_1 == 15
M_IT_TA_1 == 16
M_EP_TA_1 == 17
M_EP_TB_1 == 18
M_EP_TC_1 == 19
M_PS_NA_1 == 20
M_ME_ND_1 == 21
M_SP_TB_1 == 30
M_DP_TB_1 == 31
M_ST_TB_1 == 32
M_BO_TB_1 == 33
M_ME_TD_1 == 34
M_ME_TE_1 == 35
M_ME_TF_1 == 36
M_IT_TB_1 == 37
M_EP_TD_1 == 38
M_EP_TE_1 == 39
M_EP_TF_1 == 40
S_IT_TC_1 == 41
C_SC_NA_1 == 45
C_DC_NA_1 == 46
C_RC_NA_1 == 47
C_SE_NA_1 == 48
C_SE_NB_1 == 49
C_SE_NC_1 == 50
C_BO_NA_1 == 51
C_SC_TA_1 == 58
C_DC_TA_1 == 59
C_RC_TA_1 == 60
C_SE_TA_1 == 61
C_SE_TB_1 == 62
C_SE_TC_1 == 63
C_BO_TA_1 == 64
M_EI_NA_1 == 70
S_CH_NA_1 == 81
S_RP_NA_1 == 82
S_AR_NA_1 == 83
S_KR_NA_1 == 84
S_KS_NA_1 == 85
S_KC_NA_1 == 86
S_ER_NA_1 == 87
S_US_NA_1 == 90
S_UQ_NA_1 == 91
S_UR_NA_1 == 92
S_UK_NA_1 == 93
S_UA_NA_1 == 94
S_UC_NA_1 == 95
C_IC_NA_1 == 100
C_CI_NA_1 == 101
C_RD_NA_1 == 102
C_CS_NA_1 == 103
C_TS_NA_1 == 104
C_RP_NA_1 == 105
C_CD_NA_1 == 106
C_TS_TA_1 == 107
P_ME_NA_1 == 110
P_ME_NB_1 == 111
P_ME_NC_1 == 112
P_AC_NA_1 == 113
F_FR_NA_1 == 120
F_SR_NA_1 == 121
F_SC_NA_1 == 122
F_LS_NA_1 == 123
F_AF_NA_1 == 124
F_SG_NA_1 == 125
F_DR_TA_1 == 126
F_SC_NB_1 == 127

Unused == 0
Periodic == 1
Background == 2
Spontaneous == 3
Initialized == 4
Request == 5
Activation == 6
ActivationCon == 7
Deactivation == 8
DeactivationCon == 9
ActivationTerm == 10
ReturnInfoRemote == 11
ReturnInfoLocal == 12
FileTransfer == 13
Authentication == 14
SessionKey == 15
UserRoleAndUpdateKey == 16
InterrogatedByStation == 20
InterrogatedByGroup1 == 21
InterrogatedByGroup2 == 22
InterrogatedByGroup3 == 23
InterrogatedByGroup4 == 24
InterrogatedByGroup5 == 25
InterrogatedByGroup6 == 26
InterrogatedByGroup7 == 27
InterrogatedByGroup8 == 28
InterrogatedByGroup9 == 29
InterrogatedByGroup10 == 30
InterrogatedByGroup11 == 31
InterrogatedByGroup12 == 32
InterrogatedByGroup13 == 33
InterrogatedByGroup14 == 34
InterrogatedByGroup15 == 35
InterrogatedByGroup16 == 36
RequestByGeneralCounter == 37
RequestByGroup1Counter == 38
RequestByGroup2Counter == 39
RequestByGroup3Counter == 40
RequestByGroup4Counter == 41
UnknownTypeID == 44
UnknownCOT == 45
UnknownCA == 46
UnknownIOA == 47

-----------------------------------------------------------------------------
(* Go's integer operators on the byte and word values of the codec. *)

\* a & b on non-negative integers
RECURSIVE BitAnd(_, _)
BitAnd(a, b) ==
    IF a = 0 \/ b = 0 THEN 0
    ELSE (a % 2) * (b % 2) + 2 * BitAnd(a \div 2, b \div 2)

\* a | b on non-negative integers
RECURSIVE BitOr(_, _)
BitOr(a, b) ==
    IF a = 0 THEN b
    ELSE IF b = 0 THEN a
    ELSE (IF a % 2 = 1 \/ b % 2 = 1 THEN 1 ELSE 0) + 2 * BitOr(a \div 2, b \div 2)

\* byte(x): the low 8 bits of x (two's complement for a negative x)
Byte(x) == x % 256

\* x >> 8 and x >> 16 (arithmetic shift: floor division)
Shr8(x) == x \div 256
Shr16(x) == x \div 65536
Shr24(x) == x \div 16777216

\* binary.LittleEndian.Uint16 / Uint32 of the first bytes of b
LittleEndianUint16(b) == b[1] + 256 * b[2]

\* a 32-bit word is carried as the int32 that has its bits
LittleEndianUint32(b) ==
    b[1] + 256 * b[2] + 65536 * b[3] + 16777216 * (IF b[4] >= 128 THEN b[4] - 256 ELSE b[4])

\* int16(x) of a 16-bit pattern
Int16(x) == IF x >= 32768 THEN x - 65536 ELSE x

\* b[n:] of a byte slice (n <= len(b))
Drop(b, n) == SubSeq(b, n + 1, Len(b))

-----------------------------------------------------------------------------
(* Errors of package asdu, as the value a routine returns. *)

ErrNil == "nil"
ErrTypeIdentifier == "ErrTypeIdentifier"
ErrCmdCause == "ErrCmdCause"
ErrNotAnyObjInfo == "ErrNotAnyObjInfo"
ErrLengthOutOfRange == "ErrLengthOutOfRange"
ErrInfoObjAddrFit == "ErrInfoObjAddrFit"
ErrTypeIDNotMatch == "ErrTypeIDNotMatch"
ErrParam == "ErrParam"
\* an error of the transport behind Connect.Send
ErrSend == "ErrSend"

-----------------------------------------------------------------------------
(* Data unit identifier, asdu/identifier.go *)

\* infoObjSize maps the type identification to the serial octet size.
infoObjSize ==
    (M_SP_NA_1 :> 1) @@ (M_SP_TA_1 :> 4) @@ (M_DP_NA_1 :> 1) @@ (M_DP_TA_1 :> 4) @@
    (M_ST_NA_1 :> 2) @@ (M_ST_TA_1 :> 5) @@ (M_BO_NA_1 :> 5) @@ (M_BO_TA_1 :> 8) @@
    (M_ME_NA_1 :> 3) @@ (M_ME_TA_1 :> 6) @@ (M_ME_NB_1 :> 3) @@ (M_ME_TB_1 :> 6) @@
    (M_ME_NC_1 :> 5) @@ (M_ME_TC_1 :> 8) @@ (M_IT_NA_1 :> 5) @@ (M_IT_TA_1 :> 8) @@
    (M_EP_TA_1 :> 6) @@ (M_EP_TB_1 :> 7) @@ (M_EP_TC_1 :> 7) @@ (M_PS_NA_1 :> 5) @@
    (M_ME_ND_1 :> 2) @@
    (M_SP_TB_1 :> 8) @@ (M_DP_TB_1 :> 8) @@ (M_ST_TB_1 :> 9) @@ (M_BO_TB_1 :> 12) @@
    (M_ME_TD_1 :> 10) @@ (M_ME_TE_1 :> 10) @@ (M_ME_TF_1 :> 12) @@ (M_IT_TB_1 :> 12) @@
    (M_EP_TD_1 :> 11) @@ (M_EP_TE_1 :> 11) @@ (M_EP_TF_1 :> 11) @@
    (C_SC_NA_1 :> 1) @@ (C_DC_NA_1 :> 1) @@ (C_RC_NA_1 :> 1) @@ (C_SE_NA_1 :> 3) @@
    (C_SE_NB_1 :> 3) @@ (C_SE_TC_1 :> 3) @@ (C_SE_NC_1 :> 5) @@ (C_BO_NA_1 :> 4) @@
    (M_EI_NA_1 :> 1) @@
    (C_IC_NA_1 :> 1) @@ (C_CI_NA_1 :> 1) @@ (C_RD_NA_1 :> 0) @@ (C_CS_NA_1 :> 7) @@
    (C_TS_NA_1 :> 2) @@ (C_RP_NA_1 :> 1) @@ (C_CD_NA_1 :> 2) @@
    (P_ME_NA_1 :> 3) @@ (P_ME_NB_1 :> 3) @@ (P_ME_NC_1 :> 5) @@ (P_AC_NA_1 :> 1) @@
    (F_FR_NA_1 :> 6) @@ (F_SR_NA_1 :> 7) @@ (F_SC_NA_1 :> 4) @@ (F_LS_NA_1 :> 5) @@
    (F_AF_NA_1 :> 4) @@ (F_DR_TA_1 :> 13)

\* GetInfoObjSize: (size, error)
GetInfoObjSize(id) ==
    IF id \notin DOMAIN infoObjSize
    THEN [size |-> 0, err |-> ErrTypeIdentifier]
    ELSE [size |-> infoObjSize[id], err |-> ErrNil]

\* VariableStruct{Number, IsSequence}
VariableStruct(number, isSequence) == [Number |-> number, IsSequence |-> isSequence]

ParseVariableStruct(b) ==
    [Number |-> BitAnd(b, 127), IsSequence |-> BitAnd(b, 128) = 128]

VariableStructValue(sf) ==
    IF sf.IsSequence THEN BitOr(sf.Number, 128) ELSE sf.Number

\* CauseOfTransmission{IsTest, IsNegative, Cause}
CauseOfTransmission(isTest, isNegative, cause) ==
    [IsTest |-> isTest, IsNegative |-> isNegative, Cause |-> cause]

ParseCauseOfTransmission(b) ==
    [IsNegative |-> BitAnd(b, 64) = 64,
     IsTest |-> BitAnd(b, 128) = 128,
     Cause |-> BitAnd(b, 63)]

CauseOfTransmissionValue(sf) ==
    LET v0 == sf.Cause
        v1 == IF sf.IsNegative THEN BitOr(v0, 64) ELSE v0
        v2 == IF sf.IsTest THEN BitOr(v1, 128) ELSE v1
    IN Byte(v2)

\* Identifier{Type, Variable, Coa, OrigAddr, CommonAddr}
Identifier(typeID, variable, coa, orig, ca) ==
    [Type |-> typeID, Variable |-> variable, Coa |-> coa, OrigAddr |-> orig, CommonAddr |-> ca]

-----------------------------------------------------------------------------
(* Params and the ASDU container.  Their Go file is not among the sources; *)
(* they follow sections 3, 4.2 and 4.3 of the specification.               *)

ASDUSizeMax == 249

\* Params{CauseSize, CommonAddrSize, InfoObjAddrSize}
Params(cot, ca, ioa) == [CauseSize |-> cot, CommonAddrSize |-> ca, InfoObjAddrSize |-> ioa]

ParamsValid(p) ==
    IF p.CauseSize \notin {1, 2} \/ p.CommonAddrSize \notin {1, 2} \/ p.InfoObjAddrSize \notin {1, 2, 3}
    THEN ErrParam
    ELSE ErrNil

\* TypeID + VSQ + COT + CA
IdentifierSize(p) == 2 + p.CauseSize + p.CommonAddrSize

\* NewASDU: the identifier and an empty information object payload
NewASDU(p, id) ==
    [Params |-> p, Type |-> id.Type, Variable |-> id.Variable, Coa |-> id.Coa,
     OrigAddr |-> id.OrigAddr, CommonAddr |-> id.CommonAddr, infoObj |-> <<>>]

\* asduLen of section 3 for n objects of the ASDU's type
asduLen(p, isSequence, n, objSize) ==
    IF isSequence
    THEN IdentifierSize(p) + n * objSize + p.InfoObjAddrSize
    ELSE IdentifierSize(p) + n * (objSize + p.InfoObjAddrSize)

\* SetVariableNumber(n): (error, ASDU)
SetVariableNumber(u, n) ==
    LET objSize == IF u.Type \in DOMAIN infoObjSize THEN infoObjSize[u.Type] ELSE 0 IN
    IF n > 127 \/ asduLen(u.Params, u.Variable.IsSequence, n, objSize) > ASDUSizeMax
    THEN [err |-> ErrLengthOutOfRange, u |-> u]
    ELSE [err |-> ErrNil, u |-> [u EXCEPT !.Variable.Number = n]]

\* Connect: Params() and Send(); Send hands the ASDU to the link and returns
\* the link's answer.
Connect(p, sendErr) == [params |-> p, sendErr |-> sendErr]

Send(c, u) == [err |-> c.sendErr, sent |-> <<u>>]

\* a routine returning err without reaching Send
Return(err) == [err |-> err, sent |-> <<>>]

-----------------------------------------------------------------------------
(* Information elements, asdu/information.go *)

\* StepPosition{Val, HasTransient}.Value()
StepPositionValue(sf) ==
    LET p == sf.Val % 128 IN
    Byte(IF sf.HasTransient THEN BitOr(p, 128) ELSE p)

\* ParseStepPosition without the sign extension from bit 6
ParseStepPositionUnsigned(b) ==
    [HasTransient |-> BitAnd(b, 128) # 0, Val |-> BitAnd(b, 127)]

ParseStepPosition(b) ==
    [HasTransient |-> BitAnd(b, 128) # 0,
     Val |-> IF BitAnd(b, 64) = 0 THEN BitAnd(b, 63) ELSE (b % 64) - 64]

-----------------------------------------------------------------------------
(* Time tags.  A time.Time is the record of its calendar fields in the     *)
(* session's time zone; Msec counts the milliseconds within the minute.    *)
(* The encoders are not among the sources and follow section 4.1.          *)

Time(year, month, day, hour, min, msec) ==
    [Year |-> year, Month |-> month, Day |-> day, Hour |-> hour, Min |-> min, Msec |-> msec]

\* the zero time.Time: 0001-01-01 00:00:00
ZeroTime == Time(1, 1, 1, 0, 0, 0)

\* the clock of the decoding station, which completes a CP24 time tag
Now == Time(2024, 2, 29, 10, 0, 0)

\* day of the week of a local date, 1 = Monday .. 7 = Sunday
DayOfWeek(t) ==
    LET m == IF t.Month < 3 THEN t.Month + 12 ELSE t.Month
        y == IF t.Month < 3 THEN t.Year - 1 ELSE t.Year
        k == y % 100
        j == y \div 100
        h == (t.Day + ((13 * (m + 1)) \div 5) + k + (k \div 4) + (j \div 4) + 5 * j) % 7
    IN ((h + 5) % 7) + 1

\* ms_lo, ms_hi, {min, IV}, {hour, SU}, {day, dow}, {month}, {year}
CP56Time2a(t) ==
    <<Byte(t.Msec), Byte(Shr8(t.Msec)), Byte(t.Min), Byte(t.Hour),
      BitOr(Byte(t.Day), Byte(DayOfWeek(t) * 32)), Byte(t.Month), Byte(t.Year - 2000)>>

\* CP56 truncated to {ms, min}
CP24Time2a(t) == SubSeq(CP56Time2a(t), 1, 3)

ParseCP56Time2a(b) ==
    Time(2000 + BitAnd(b[7], 127), BitAnd(b[6], 15), BitAnd(b[5], 31),
         BitAnd(b[4], 31), BitAnd(b[3], 63), LittleEndianUint16(b))

ParseCP24Time2a(b) ==
    Time(Now.Year, Now.Month, Now.Day, Now.Hour, BitAnd(b[3], 63), LittleEndianUint16(b))

-----------------------------------------------------------------------------
(* The append cursor and the read cursor of the ASDU.  A Decode operator   *)
(* returns the value read, v, and the ASDU with the cursor advanced, u.    *)

AppendBytes(u, b) == [u EXCEPT !.infoObj = @ \o b]

DecodeByte(u) == [v |-> u.infoObj[1], u |-> [u EXCEPT !.infoObj = Drop(@, 1)]]

\* AppendInfoObjAddr appending the low bytes of an address of any size
AppendInfoObjAddrTruncating(u, addr) ==
    CASE u.Params.InfoObjAddrSize = 1 ->
           [err |-> ErrNil, u |-> AppendBytes(u, <<Byte(addr)>>)]
      [] u.Params.InfoObjAddrSize = 2 ->
           [err |-> ErrNil, u |-> AppendBytes(u, <<Byte(addr), Byte(Shr8(addr))>>)]
      [] u.Params.InfoObjAddrSize = 3 ->
           [err |-> ErrNil,
            u |-> AppendBytes(u, <<Byte(addr), Byte(Shr8(addr)), Byte(Shr16(addr))>>)]
      [] OTHER -> [err |-> ErrParam, u |-> u]

\* AppendInfoObjAddr: (error, ASDU)
AppendInfoObjAddr(u, addr) ==
    CASE u.Params.InfoObjAddrSize = 1 ->
           IF addr > 255 THEN [err |-> ErrInfoObjAddrFit, u |-> u]
           ELSE [err |-> ErrNil, u |-> AppendBytes(u, <<Byte(addr)>>)]
      [] u.Params.InfoObjAddrSize = 2 ->
           IF addr > 65535 THEN [err |-> ErrInfoObjAddrFit, u |-> u]
           ELSE [err |-> ErrNil, u |-> AppendBytes(u, <<Byte(addr), Byte(Shr8(addr))>>)]
      [] u.Params.InfoObjAddrSize = 3 ->
           IF addr > 16777215 THEN [err |-> ErrInfoObjAddrFit, u |-> u]
           ELSE [err |-> ErrNil,
                 u |-> AppendBytes(u, <<Byte(addr), Byte(Shr8(addr)), Byte(Shr16(addr))>>)]
      [] OTHER -> [err |-> ErrParam, u |-> u]

DecodeInfoObjAddr(u) ==
    LET b == u.infoObj
        n == u.Params.InfoObjAddrSize
        ioa == CASE n = 1 -> b[1]
                 [] n = 2 -> BitOr(b[1], b[2] * 256)
                 [] n = 3 -> BitOr(BitOr(b[1], b[2] * 256), b[3] * 65536)
    IN [v |-> ioa, u |-> [u EXCEPT !.infoObj = Drop(@, n)]]

AppendNormalize(u, n) == AppendBytes(u, <<Byte(n), Byte(Shr8(n))>>)

DecodeNormalize(u) ==
    [v |-> Int16(LittleEndianUint16(u.infoObj)), u |-> [u EXCEPT !.infoObj = Drop(@, 2)]]

AppendScaled(u, i) == AppendBytes(u, <<Byte(i), Byte(Shr8(i))>>)

DecodeScaled(u) ==
    [v |-> Int16(LittleEndianUint16(u.infoObj)), u |-> [u EXCEPT !.infoObj = Drop(@, 2)]]

\* a float32 is carried as math.Float32bits of it
AppendFloat32(u, bits) ==
    AppendBytes(u, <<Byte(bits), Byte(Shr8(bits)), Byte(Shr16(bits)), Byte(Shr24(bits))>>)

DecodeFloat(u) ==
    [v |-> LittleEndianUint32(u.infoObj), u |-> [u EXCEPT !.infoObj = Drop(@, 4)]]

AppendBitsString32(u, v) ==
    AppendBytes(u, <<Byte(v), Byte(Shr8(v)), Byte(Shr16(v)), Byte(Shr24(v))>>)

DecodeBitsString32(u) ==
    [v |-> LittleEndianUint32(u.infoObj), u |-> [u EXCEPT !.infoObj = Drop(@, 4)]]

DecodeCP56Time2a(u) ==
    [v |-> ParseCP56Time2a(u.infoObj), u |-> [u EXCEPT !.infoObj = Drop(@, 7)]]

DecodeCP24Time2a(u) ==
    [v |-> ParseCP24Time2a(u.infoObj), u |-> [u EXCEPT !.infoObj = Drop(@, 3)]]

(* Cursor operations whose Go text is not among the sources (section 4.1, 4.3) *)

AppendCP56Time2a(u, t) == AppendBytes(u, CP56Time2a(t))

AppendCP24Time2a(u, t) == AppendBytes(u, CP24Time2a(t))

\* CP16: raw little-endian milliseconds
AppendCP16Time2a(u, msec) == AppendBytes(u, <<Byte(msec), Byte(Shr8(msec))>>)

DecodeCP16Time2a(u) ==
    [v |-> LittleEndianUint16(u.infoObj), u |-> [u EXCEPT !.infoObj = Drop(@, 2)]]

AppendUint16(u, v) == AppendBytes(u, <<Byte(v), Byte(Shr8(v))>>)

DecodeUint16(u) ==
    [v |-> LittleEndianUint16(u.infoObj), u |-> [u EXCEPT !.infoObj = Drop(@, 2)]]

\* 32-bit counter + 1 byte {seq: 5 bits, carry: bit 5, adjusted: bit 6, invalid: bit 7}
AppendBinaryCounterReading(u, v) ==
    LET c == v.CounterReading
        s0 == BitAnd(v.SeqNumber, 31)
        s1 == IF v.HasCarry THEN BitOr(s0, 32) ELSE s0
        s2 == IF v.IsAdjusted THEN BitOr(s1, 64) ELSE s1
        s3 == IF v.IsInvalid THEN BitOr(s2, 128) ELSE s2
    IN AppendBytes(u, <<Byte(c), Byte(Shr8(c)), Byte(Shr16(c)), Byte(Shr24(c)), s3>>)

DecodeBinaryCounterReading(u) ==
    LET b == u.infoObj[5]
    IN [v |-> [CounterReading |-> LittleEndianUint32(u.infoObj),
               SeqNumber |-> BitAnd(b, 31),
               HasCarry |-> BitAnd(b, 32) = 32,
               IsAdjusted |-> BitAnd(b, 64) = 64,
               IsInvalid |-> BitAnd(b, 128) = 128],
        u |-> [u EXCEPT !.infoObj = Drop(@, 5)]]

\* StatusAndStatusChangeDetection: a 32-bit word, little-endian
AppendStatusAndStatusChangeDetection(u, scd) ==
    AppendBytes(u, <<Byte(scd), Byte(Shr8(scd)), Byte(Shr16(scd)), Byte(Shr24(scd))>>)

DecodeStatusAndStatusChangeDetection(u) ==
    [v |-> LittleEndianUint32(u.infoObj), u |-> [u EXCEPT !.infoObj = Drop(@, 4)]]

-----------------------------------------------------------------------------
(* Package clog, clog/clog.go: a Clog holds a provider and the enable      *)
(* flag has; a provider is named by a string ("nil": the nil interface),   *)
(* and a call a provider received is the pair of the provider and the      *)
(* level.                                                                  *)

\* Clog{provider, has}
Clog(provider, has) == [provider |-> provider, has |-> has]

\* the provider NewLogger installs
defaultLogger == "defaultLogger"

NewLogger(prefix) == Clog(defaultLogger, 0)

LogMode(sf, enable) ==
    IF enable THEN [sf EXCEPT !.has = 1] ELSE [sf EXCEPT !.has = 0]

\* a SetLogProvider that installs whatever it is given
SetLogProviderAny(sf, p) == [sf EXCEPT !.provider = p]

SetLogProvider(sf, p) ==
    IF p # "nil" THEN [sf EXCEPT !.provider = p] ELSE sf

\* the four level methods: the calls the providers have received, out,
\* after the call
Critical(sf, out) ==
    IF sf.has = 1 THEN Append(out, [provider |-> sf.provider, level |-> "Critical"]) ELSE out

Error(sf, out) ==
    IF sf.has = 1 THEN Append(out, [provider |-> sf.provider, level |-> "Error"]) ELSE out

Warn(sf, out) ==
    IF sf.has = 1 THEN Append(out, [provider |-> sf.provider, level |-> "Warn"]) ELSE out

Debug(sf, out) ==
    IF sf.has = 1 THEN Append(out, [provider |-> sf.provider, level |-> "Debug"]) ELSE out

-----------------------------------------------------------------------------
(* The calls explored.  A behaviour is one call of a build routine on a    *)
(* fresh Connect, followed by one parse of the ASDU that reached Send.     *)

\* longest list of records in the record sweep
MaxInfos == 2

\* list lengths at the size limits of checkValid and SetVariableNumber
Sizes == {22, 23, 27, 28, 127, 128, 245}

\* every value of the 6-bit cause field
Causes == 0..63

DefaultParams == Params(2, 2, 3)

\* the zero Params value is not valid
ParamsSet == {Params(1, 1, 1), Params(2, 2, 2), DefaultParams, Params(0, 0, 0)}

T1 == Time(2021, 3, 4, 13, 45, 12345)
T2 == Time(2099, 12, 31, 23, 59, 59999)

\* all lists of at most n records of S
RECURSIVE Lists(_, _)
Lists(S, n) ==
    IF n = 0 THEN {<<>>}
    ELSE LET shorter == Lists(S, n - 1) IN
         shorter \cup {Append(l, r) : l \in {x \in shorter : Len(x) = n - 1}, r \in S}

\* n records with consecutive addresses, starting with r
Consecutive(r, n) == [i \in 1..n |-> [r EXCEPT !.Ioa = @ + i - 1]]

Args(c, isSequence, coa, ca, infos) ==
    [c |-> c, isSequence |-> isSequence, coa |-> coa, ca |-> ca, infos |-> infos]

\* the arguments tried for a routine taking records of S, cause0 being a
\* cause it admits and seqs the values of isSequence it can be given
Inputs(S, r0, cause0, seqs) ==
    LET coa0 == CauseOfTransmission(FALSE, FALSE, cause0) IN
    \* every cause and flag, with and without a record
    {Args(Connect(DefaultParams, ErrNil), FALSE, CauseOfTransmission(t, n, cause), 1, infos) :
        t \in BOOLEAN, n \in BOOLEAN, cause \in Causes, infos \in {<<>>, <<r0>>}}
    \cup
    \* every short list, on every Connect
    {Args(Connect(p, ErrNil), sq, coa0, 1, infos) :
        p \in ParamsSet, sq \in seqs, infos \in Lists(S, MaxInfos)}
    \cup
    \* long lists
    {Args(Connect(p, ErrNil), sq, coa0, 65535, Consecutive(r0, n)) :
        p \in ParamsSet \ {Params(0, 0, 0)}, sq \in seqs, n \in Sizes}
    \cup
    \* a transport that fails
    {Args(Connect(DefaultParams, ErrSend), FALSE, coa0, 1, <<r0>>)}

NoCall ==
    Call("", 0, Args(Connect(DefaultParams, ErrNil), FALSE, CauseOfTransmission(FALSE, FALSE, 0), 0, <<>>))

\* a build routine returns its error only
NoVal == [fn |-> "", returned |-> <<>>]

NoGot == [fn |-> "", u |-> <<>>, panic |-> ErrNil, infos |-> <<>>, reads |-> 0]

Init ==
    /\ call = NoCall
    /\ ret = ErrNil
    /\ sent = <<>>
    /\ got = NoGot
    /\ result = NoVal
    /\ logger = NewLogger("")
    /\ forwarded = <<>>
    /\ logCalls = <<>>

\* nothing has been called yet
Idle == call.fn = "" /\ got.fn = ""

\* the routine fn, called with the arguments a, returned r
Called(fn, typeID, a, r) ==
    /\ call' = Call(fn, typeID, a)
    /\ ret' = r.err
    /\ sent' = r.sent
    /\ got' = NoGot
    /\ result' = NoVal
    /\ UNCHANGED clogVars

-----------------------------------------------------------------------------
(* Process information in the monitoring direction, asdu/identifier.go *)

Ok(u) == [err |-> ErrNil, u |-> u]

Fail(err, u) == [err |-> err, u |-> u]

\* for _, v := range infos { Body }: Body(u, v, once) gives (error, ASDU),
\* once telling whether an earlier pass has set the flag; an error returns.
\* Passes lo..hi run in order, the first half and then the second.
ForEach(u0, infos, Body(_, _, _)) ==
    LET Pass(s, i) == IF s.err # ErrNil THEN s ELSE Body(s.u, infos[i], i > 1)
        RECURSIVE Passes(_, _, _)
        Passes(s, lo, hi) ==
          IF lo > hi THEN s
          ELSE IF lo = hi THEN Pass(s, lo)
          ELSE LET first == Passes(s, lo, (lo + hi) \div 2) IN
               IF first.err # ErrNil THEN first
               ELSE Passes(first, ((lo + hi) \div 2) + 1, hi)
    IN Passes(Ok(u0), 1, Len(infos))

\* checkValid without the test for an empty list of records
checkValidAnyLength(c, typeID, isSequence, infosLen) ==
    LET size == GetInfoObjSize(typeID)
        objSize == size.size
        param == c.params
        len == IF isSequence
               THEN IdentifierSize(param) + infosLen * objSize + param.InfoObjAddrSize
               ELSE IdentifierSize(param) + infosLen * (objSize + param.InfoObjAddrSize)
    IN IF size.err # ErrNil THEN size.err
       ELSE IF ParamsValid(param) # ErrNil THEN ParamsValid(param)
       ELSE IF len > ASDUSizeMax THEN ErrLengthOutOfRange
       ELSE ErrNil

\* checkValid check common parameter of request is valid
checkValid(c, typeID, isSequence, infosLen) ==
    LET size == GetInfoObjSize(typeID)
        objSize == size.size
        param == c.params
        len == IF isSequence
               THEN IdentifierSize(param) + infosLen * objSize + param.InfoObjAddrSize
               ELSE IdentifierSize(param) + infosLen * (objSize + param.InfoObjAddrSize)
    IN IF infosLen = 0 THEN ErrNotAnyObjInfo
       ELSE IF size.err # ErrNil THEN size.err
       ELSE IF ParamsValid(param) # ErrNil THEN ParamsValid(param)
       ELSE IF len > ASDUSizeMax THEN ErrLengthOutOfRange
       ELSE ErrNil

\* the steps every list builder takes around its loop
Build(c, typeID, isSequence, coa, ca, infos, Body(_, _, _)) ==
    LET chk == checkValid(c, typeID, isSequence, Len(infos))
        u0 == NewASDU(c.params, Identifier(typeID, VariableStruct(0, isSequence), coa, 0, ca))
        n == SetVariableNumber(u0, Len(infos))
        r == ForEach(n.u, infos, Body)
    IN IF chk # ErrNil THEN Return(chk)
       ELSE IF n.err # ErrNil THEN Return(n.err)
       ELSE IF r.err # ErrNil THEN Return(r.err)
       ELSE Send(c, r.u)

\* the address appended in every pass, whatever isSequence
AddrEveryPass(u, isSequence, once, ioa) == AppendInfoObjAddr(u, ioa)

\* if !isSequence || !once { once = true; AppendInfoObjAddr }
AddrOnce(u, isSequence, once, ioa) ==
    IF ~isSequence \/ ~once THEN AppendInfoObjAddr(u, ioa) ELSE Ok(u)

\* SinglePointInfo and the other attribute structs {Ioa, Value, Qds, Time}
Info(ioa, value, qds, t) == [Ioa |-> ioa, Value |-> value, Qds |-> qds, Time |-> t]

\* a single that hands the ASDU to Send and returns nil whatever Send answers
singleDroppingSendResult(c, typeID, isSequence, coa, ca, infos) ==
    LET Body(u, v, once) ==
          LET a == AddrOnce(u, isSequence, once, v.Ioa)
              value == IF v.Value THEN 1 ELSE 0
              u1 == AppendBytes(a.u, <<BitOr(value, Byte(BitAnd(v.Qds, 240)))>>)
          IN IF a.err # ErrNil THEN a
             ELSE CASE typeID = M_SP_NA_1 -> Ok(u1)
                    [] typeID = M_SP_TA_1 -> Ok(AppendBytes(u1, CP24Time2a(v.Time)))
                    [] typeID = M_SP_TB_1 -> Ok(AppendBytes(u1, CP56Time2a(v.Time)))
                    [] OTHER -> Fail(ErrTypeIDNotMatch, u1)
        r == Build(c, typeID, isSequence, coa, ca, infos, Body)
    IN IF r.sent # <<>> THEN [err |-> ErrNil, sent |-> r.sent] ELSE r

single(c, typeID, isSequence, coa, ca, infos) ==
    LET Body(u, v, once) ==
          LET a == AddrOnce(u, isSequence, once, v.Ioa)
              value == IF v.Value THEN 1 ELSE 0
              u1 == AppendBytes(a.u, <<BitOr(value, Byte(BitAnd(v.Qds, 240)))>>)
          IN IF a.err # ErrNil THEN a
             ELSE CASE typeID = M_SP_NA_1 -> Ok(u1)
                    [] typeID = M_SP_TA_1 -> Ok(AppendBytes(u1, CP24Time2a(v.Time)))
                    [] typeID = M_SP_TB_1 -> Ok(AppendBytes(u1, CP56Time2a(v.Time)))
                    [] OTHER -> Fail(ErrTypeIDNotMatch, u1)
    IN Build(c, typeID, isSequence, coa, ca, infos, Body)

SinglePointInfos ==
    {Info(1, TRUE, 0, T1), Info(2, FALSE, 240, T2), Info(65536, TRUE, 129, T1),
     Info(255, TRUE, 255, T1)}

Single ==
    /\ Idle
    /\ \E a \in Inputs(SinglePointInfos, Info(1, TRUE, 0, T1), Spontaneous, BOOLEAN) :
         Called("Single", 0, a,
                IF ~(a.coa.Cause = Background \/ a.coa.Cause = Spontaneous \/ a.coa.Cause = Request
                     \/ a.coa.Cause = ReturnInfoRemote \/ a.coa.Cause = ReturnInfoLocal
                     \/ (a.coa.Cause >= InterrogatedByStation /\ a.coa.Cause <= InterrogatedByGroup16))
                THEN Return(ErrCmdCause)
                ELSE single(a.c, M_SP_NA_1, a.isSequence, a.coa, a.ca, a.infos))

SingleCP24Time2a ==
    /\ Idle
    /\ \E a \in Inputs(SinglePointInfos, Info(1, TRUE, 0, T1), Spontaneous, {FALSE}) :
         Called("SingleCP24Time2a", 0, a,
                IF ~(a.coa.Cause = Spontaneous \/ a.coa.Cause = Request
                     \/ a.coa.Cause = ReturnInfoRemote \/ a.coa.Cause = ReturnInfoLocal)
                THEN Return(ErrCmdCause)
                ELSE single(a.c, M_SP_TA_1, FALSE, a.coa, a.ca, a.infos))

SingleCP56Time2a ==
    /\ Idle
    /\ \E a \in Inputs(SinglePointInfos, Info(1, TRUE, 0, T1), Spontaneous, {FALSE}) :
         Called("SingleCP56Time2a", 0, a,
                IF ~(a.coa.Cause = Spontaneous \/ a.coa.Cause = Request
                     \/ a.coa.Cause = ReturnInfoRemote \/ a.coa.Cause = ReturnInfoLocal)
                THEN Return(ErrCmdCause)
                ELSE single(a.c, M_SP_TB_1, FALSE, a.coa, a.ca, a.infos))

-----------------------------------------------------------------------------
(* Double point, step position and bit string information *)

double(c, typeID, isSequence, coa, ca, infos) ==
    LET Body(u, v, once) ==
          LET a == AddrOnce(u, isSequence, once, v.Ioa)
              u1 == AppendBytes(a.u, <<BitOr(Byte(BitAnd(v.Value, 3)), Byte(BitAnd(v.Qds, 240)))>>)
          IN IF a.err # ErrNil THEN a
             ELSE CASE typeID = M_DP_NA_1 -> Ok(u1)
                    [] typeID = M_DP_TA_1 -> Ok(AppendBytes(u1, CP24Time2a(v.Time)))
                    [] typeID = M_DP_TB_1 -> Ok(AppendBytes(u1, CP56Time2a(v.Time)))
                    [] OTHER -> Fail(ErrTypeIDNotMatch, u1)
    IN Build(c, typeID, isSequence, coa, ca, infos, Body)

DoublePointInfos ==
    {Info(1, 1, 0, T1), Info(2, 2, 240, T2), Info(65536, 3, 129, T1),
     Info(3, 1, 255, T1)}

Double ==
    /\ Idle
    /\ \E a \in Inputs(DoublePointInfos, Info(1, 1, 0, T1), Spontaneous, BOOLEAN) :
         Called("Double", 0, a,
                IF ~(a.coa.Cause = Background \/ a.coa.Cause = Spontaneous \/ a.coa.Cause = Request
                     \/ a.coa.Cause = ReturnInfoRemote \/ a.coa.Cause = ReturnInfoLocal
                     \/ (a.coa.Cause >= InterrogatedByStation /\ a.coa.Cause <= InterrogatedByGroup16))
                THEN Return(ErrCmdCause)
                ELSE double(a.c, M_DP_NA_1, a.isSequence, a.coa, a.ca, a.infos))

\* DoubleCP24Time2a with the causes of Double
DoubleCP24Time2aCausesOfDouble ==
    /\ Idle
    /\ \E a \in Inputs(DoublePointInfos, Info(1, 1, 0, T1), Spontaneous, {FALSE}) :
         Called("DoubleCP24Time2a", 0, a,
                IF ~(a.coa.Cause = Background \/ a.coa.Cause = Spontaneous \/ a.coa.Cause = Request
                     \/ a.coa.Cause = ReturnInfoRemote \/ a.coa.Cause = ReturnInfoLocal
                     \/ (a.coa.Cause >= InterrogatedByStation /\ a.coa.Cause <= InterrogatedByGroup16))
                THEN Return(ErrCmdCause)
                ELSE double(a.c, M_DP_TA_1, FALSE, a.coa, a.ca, a.infos))

DoubleCP24Time2a ==
    /\ Idle
    /\ \E a \in Inputs(DoublePointInfos, Info(1, 1, 0, T1), Spontaneous, {FALSE}) :
         Called("DoubleCP24Time2a", 0, a,
                IF ~(a.coa.Cause = Spontaneous \/ a.coa.Cause = Request
                     \/ a.coa.Cause = ReturnInfoRemote \/ a.coa.Cause = ReturnInfoLocal)
                THEN Return(ErrCmdCause)
                ELSE double(a.c, M_DP_TA_1, FALSE, a.coa, a.ca, a.infos))

DoubleCP56Time2a ==
    /\ Idle
    /\ \E a \in Inputs(DoublePointInfos, Info(1, 1, 0, T1), Spontaneous, {FALSE}) :
         Called("DoubleCP56Time2a", 0, a,
                IF ~(a.coa.Cause = Spontaneous \/ a.coa.Cause = Request
                     \/ a.coa.Cause = ReturnInfoRemote \/ a.coa.Cause = ReturnInfoLocal)
                THEN Return(ErrCmdCause)
                ELSE double(a.c, M_DP_TB_1, FALSE, a.coa, a.ca, a.infos))

\* StepPosition{Val, HasTransient}
StepPosition(val, hasTransient) == [Val |-> val, HasTransient |-> hasTransient]

step(c, typeID, isSequence, coa, ca, infos) ==
    LET Body(u, v, once) ==
          LET a == AddrOnce(u, isSequence, once, v.Ioa)
              u1 == AppendBytes(a.u, <<StepPositionValue(v.Value), Byte(v.Qds)>>)
          IN IF a.err # ErrNil THEN a
             ELSE CASE typeID = M_ST_NA_1 -> Ok(u1)
                    [] typeID = M_ST_TA_1 -> Ok(AppendBytes(u1, CP24Time2a(v.Time)))
                    [] typeID = M_SP_TB_1 -> Ok(AppendBytes(u1, CP56Time2a(v.Time)))
                    [] OTHER -> Fail(ErrTypeIDNotMatch, u1)
    IN Build(c, typeID, isSequence, coa, ca, infos, Body)

StepPositionInfos ==
    {Info(1, StepPosition(63, FALSE), 0, T1), Info(2, StepPosition(-64, TRUE), 241, T2),
     Info(65536, StepPosition(-1, FALSE), 16, T1),
     Info(3, StepPosition(1, FALSE), 255, T1)}

Step ==
    /\ Idle
    /\ \E a \in Inputs(StepPositionInfos, Info(1, StepPosition(63, FALSE), 0, T1), Spontaneous, BOOLEAN) :
         Called("Step", 0, a,
                IF ~(a.coa.Cause = Background \/ a.coa.Cause = Spontaneous \/ a.coa.Cause = Request
                     \/ a.coa.Cause = ReturnInfoRemote \/ a.coa.Cause = ReturnInfoLocal
                     \/ (a.coa.Cause >= InterrogatedByStation /\ a.coa.Cause <= InterrogatedByGroup16))
                THEN Return(ErrCmdCause)
                ELSE step(a.c, M_ST_NA_1, a.isSequence, a.coa, a.ca, a.infos))

StepCP24Time2a ==
    /\ Idle
    /\ \E a \in Inputs(StepPositionInfos, Info(1, StepPosition(63, FALSE), 0, T1), Spontaneous, {FALSE}) :
         Called("StepCP24Time2a", 0, a,
                IF ~(a.coa.Cause = Spontaneous \/ a.coa.Cause = Request
                     \/ a.coa.Cause = ReturnInfoRemote \/ a.coa.Cause = ReturnInfoLocal)
                THEN Return(ErrCmdCause)
                ELSE step(a.c, M_ST_TA_1, FALSE, a.coa, a.ca, a.infos))

StepCP56Time2a ==
    /\ Idle
    /\ \E a \in Inputs(StepPositionInfos, Info(1, StepPosition(63, FALSE), 0, T1), Spontaneous, {FALSE}) :
         Called("StepCP56Time2a", 0, a,
                IF ~(a.coa.Cause = Spontaneous \/ a.coa.Cause = Request
                     \/ a.coa.Cause = ReturnInfoRemote \/ a.coa.Cause = ReturnInfoLocal)
                THEN Return(ErrCmdCause)
                ELSE step(a.c, M_SP_TB_1, FALSE, a.coa, a.ca, a.infos))

bitString32(c, typeID, isSequence, coa, ca, infos) ==
    LET Body(u, v, once) ==
          LET a == AddrOnce(u, isSequence, once, v.Ioa)
              u1 == AppendBytes(AppendBitsString32(a.u, v.Value), <<Byte(v.Qds)>>)
          IN IF a.err # ErrNil THEN a
             ELSE CASE typeID = M_BO_NA_1 -> Ok(u1)
                    [] typeID = M_BO_TA_1 -> Ok(AppendBytes(u1, CP24Time2a(v.Time)))
                    [] typeID = M_BO_TB_1 -> Ok(AppendBytes(u1, CP56Time2a(v.Time)))
                    [] OTHER -> Fail(ErrTypeIDNotMatch, u1)
    IN Build(c, typeID, isSequence, coa, ca, infos, Body)

BitString32Infos ==
    {Info(1, 305419896, 0, T1), Info(2, -1, 241, T2), Info(65536, 0, 16, T1),
     Info(3, 1, 255, T1)}

BitString32 ==
    /\ Idle
    /\ \E a \in Inputs(BitString32Infos, Info(1, 305419896, 0, T1), Spontaneous, BOOLEAN) :
         Called("BitString32", 0, a,
                IF ~(a.coa.Cause = Background \/ a.coa.Cause = Spontaneous \/ a.coa.Cause = Request
                     \/ (a.coa.Cause >= InterrogatedByStation /\ a.coa.Cause <= InterrogatedByGroup16))
                THEN Return(ErrCmdCause)
                ELSE bitString32(a.c, M_BO_NA_1, a.isSequence, a.coa, a.ca, a.infos))

BitString32CP24Time2a ==
    /\ Idle
    /\ \E a \in Inputs(BitString32Infos, Info(1, 305419896, 0, T1), Spontaneous, {FALSE}) :
         Called("BitString32CP24Time2a", 0, a,
                IF ~(a.coa.Cause = Spontaneous \/ a.coa.Cause = Request)
                THEN Return(ErrCmdCause)
                ELSE bitString32(a.c, M_BO_TA_1, FALSE, a.coa, a.ca, a.infos))

BitString32CP56Time2a ==
    /\ Idle
    /\ \E a \in Inputs(BitString32Infos, Info(1, 305419896, 0, T1), Spontaneous, {FALSE}) :
         Called("BitString32CP56Time2a", 0, a,
                IF ~(a.coa.Cause = Spontaneous \/ a.coa.Cause = Request)
                THEN Return(ErrCmdCause)
                ELSE bitString32(a.c, M_BO_TB_1, FALSE, a.coa, a.ca, a.infos))

-----------------------------------------------------------------------------
(* Measured values and integrated totals *)

measuredValueNormal(c, typeID, isSequence, coa, ca, attrs) ==
    LET Body(u, v, once) ==
          LET a == AddrOnce(u, isSequence, once, v.Ioa)
              u1 == AppendNormalize(a.u, v.Value)
              q == AppendBytes(u1, <<Byte(v.Qds)>>)
          IN IF a.err # ErrNil THEN a
             ELSE CASE typeID = M_ME_NA_1 -> Ok(q)
                    [] typeID = M_ME_TA_1 -> Ok(AppendBytes(q, CP24Time2a(v.Time)))
                    [] typeID = M_ME_TD_1 -> Ok(AppendBytes(q, CP56Time2a(v.Time)))
                    [] typeID = M_ME_ND_1 -> Ok(u1)
                    [] OTHER -> Fail(ErrTypeIDNotMatch, u1)
    IN Build(c, typeID, isSequence, coa, ca, attrs, Body)

MeasuredValueNormalInfos ==
    {Info(1, 32767, 0, T1), Info(2, -32768, 241, T2), Info(65536, -1, 16, T1),
     Info(3, 1, 255, T1)}

MeasuredValueNormal ==
    /\ Idle
    /\ \E a \in Inputs(MeasuredValueNormalInfos, Info(1, 32767, 0, T1), Spontaneous, BOOLEAN) :
         Called("MeasuredValueNormal", 0, a,
                IF ~(a.coa.Cause = Periodic \/ a.coa.Cause = Background
                     \/ a.coa.Cause = Spontaneous \/ a.coa.Cause = Request
                     \/ (a.coa.Cause >= InterrogatedByStation /\ a.coa.Cause <= InterrogatedByGroup16))
                THEN Return(ErrCmdCause)
                ELSE measuredValueNormal(a.c, M_ME_NA_1, a.isSequence, a.coa, a.ca, a.infos))

MeasuredValueNormalCP24Time2a ==
    /\ Idle
    /\ \E a \in Inputs(MeasuredValueNormalInfos, Info(1, 32767, 0, T1), Spontaneous, {FALSE}) :
         Called("MeasuredValueNormalCP24Time2a", 0, a,
                IF ~(a.coa.Cause = Spontaneous \/ a.coa.Cause = Request)
                THEN Return(ErrCmdCause)
                ELSE measuredValueNormal(a.c, M_ME_TA_1, FALSE, a.coa, a.ca, a.infos))

MeasuredValueNormalCP56Time2a ==
    /\ Idle
    /\ \E a \in Inputs(MeasuredValueNormalInfos, Info(1, 32767, 0, T1), Spontaneous, {FALSE}) :
         Called("MeasuredValueNormalCP56Time2a", 0, a,
                IF ~(a.coa.Cause = Spontaneous \/ a.coa.Cause = Request)
                THEN Return(ErrCmdCause)
                ELSE measuredValueNormal(a.c, M_ME_TD_1, FALSE, a.coa, a.ca, a.infos))

MeasuredValueNormalNoQuality ==
    /\ Idle
    /\ \E a \in Inputs(MeasuredValueNormalInfos, Info(1, 32767, 0, T1), Spontaneous, BOOLEAN) :
         Called("MeasuredValueNormalNoQuality", 0, a,
                IF ~(a.coa.Cause = Periodic \/ a.coa.Cause = Background
                     \/ a.coa.Cause = Spontaneous \/ a.coa.Cause = Request
                     \/ (a.coa.Cause >= InterrogatedByStation /\ a.coa.Cause <= InterrogatedByGroup16))
                THEN Return(ErrCmdCause)
                ELSE measuredValueNormal(a.c, M_ME_ND_1, a.isSequence, a.coa, a.ca, a.infos))

measuredValueScaled(c, typeID, isSequence, coa, ca, infos) ==
    LET Body(u, v, once) ==
          LET a == AddrOnce(u, isSequence, once, v.Ioa)
              u1 == AppendBytes(AppendScaled(a.u, v.Value), <<Byte(v.Qds)>>)
          IN IF a.err # ErrNil THEN a
             ELSE CASE typeID = M_ME_NB_1 -> Ok(u1)
                    [] typeID = M_ME_TB_1 -> Ok(AppendBytes(u1, CP24Time2a(v.Time)))
                    [] typeID = M_ME_TE_1 -> Ok(AppendBytes(u1, CP56Time2a(v.Time)))
                    [] OTHER -> Fail(ErrTypeIDNotMatch, u1)
    IN Build(c, typeID, isSequence, coa, ca, infos, Body)

MeasuredValueScaledInfos ==
    {Info(1, 32767, 0, T1), Info(2, -32768, 241, T2), Info(65536, -1, 16, T1),
     Info(3, 1, 255, T1)}

MeasuredValueScaled ==
    /\ Idle
    /\ \E a \in Inputs(MeasuredValueScaledInfos, Info(1, 32767, 0, T1), Spontaneous, BOOLEAN) :
         Called("MeasuredValueScaled", 0, a,
                IF ~(a.coa.Cause = Periodic \/ a.coa.Cause = Background
                     \/ a.coa.Cause = Spontaneous \/ a.coa.Cause = Request
                     \/ (a.coa.Cause >= InterrogatedByStation /\ a.coa.Cause <= InterrogatedByGroup16))
                THEN Return(ErrCmdCause)
                ELSE measuredValueScaled(a.c, M_ME_NB_1, a.isSequence, a.coa, a.ca, a.infos))

MeasuredValueScaledCP24Time2a ==
    /\ Idle
    /\ \E a \in Inputs(MeasuredValueScaledInfos, Info(1, 32767, 0, T1), Spontaneous, {FALSE}) :
         Called("MeasuredValueScaledCP24Time2a", 0, a,
                IF ~(a.coa.Cause = Spontaneous \/ a.coa.Cause = Request)
                THEN Return(ErrCmdCause)
                ELSE measuredValueScaled(a.c, M_ME_TB_1, FALSE, a.coa, a.ca, a.infos))

MeasuredValueScaledCP56Time2a ==
    /\ Idle
    /\ \E a \in Inputs(MeasuredValueScaledInfos, Info(1, 32767, 0, T1), Spontaneous, {FALSE}) :
         Called("MeasuredValueScaledCP56Time2a", 0, a,
                IF ~(a.coa.Cause = Spontaneous \/ a.coa.Cause = Request)
                THEN Return(ErrCmdCause)
                ELSE measuredValueScaled(a.c, M_ME_TE_1, FALSE, a.coa, a.ca, a.infos))

measuredValueFloat(c, typeID, isSequence, coa, ca, infos) ==
    LET Body(u, v, once) ==
          LET a == AddrOnce(u, isSequence, once, v.Ioa)
              u1 == AppendBytes(AppendFloat32(a.u, v.Value), <<Byte(BitAnd(v.Qds, 241))>>)
          IN IF a.err # ErrNil THEN a
             ELSE CASE typeID = M_ME_NC_1 -> Ok(u1)
                    [] typeID = M_ME_TC_1 -> Ok(AppendBytes(u1, CP24Time2a(v.Time)))
                    [] typeID = M_ME_TF_1 -> Ok(AppendBytes(u1, CP56Time2a(v.Time)))
                    [] OTHER -> Fail(ErrTypeIDNotMatch, u1)
    IN Build(c, typeID, isSequence, coa, ca, infos, Body)

\* 1065353216 = Float32bits(1.0), -1082130432 = Float32bits(-1.0)
MeasuredValueFloatInfos ==
    {Info(1, 1065353216, 0, T1), Info(2, -1082130432, 241, T2), Info(65536, 0, 16, T1),
     Info(3, 1, 255, T1)}

\* MeasuredValueFloat with the return information causes let pass
MeasuredValueFloatReturnInfo ==
    /\ Idle
    /\ \E a \in Inputs(MeasuredValueFloatInfos, Info(1, 1065353216, 0, T1), Spontaneous, BOOLEAN) :
         Called("MeasuredValueFloat", 0, a,
                IF ~(a.coa.Cause = Periodic \/ a.coa.Cause = Background
                     \/ a.coa.Cause = Spontaneous \/ a.coa.Cause = Request
                     \/ a.coa.Cause = ReturnInfoRemote \/ a.coa.Cause = ReturnInfoLocal
                     \/ (a.coa.Cause >= InterrogatedByStation /\ a.coa.Cause <= InterrogatedByGroup16))
                THEN Return(ErrCmdCause)
                ELSE measuredValueFloat(a.c, M_ME_NC_1, a.isSequence, a.coa, a.ca, a.infos))

MeasuredValueFloat ==
    /\ Idle
    /\ \E a \in Inputs(MeasuredValueFloatInfos, Info(1, 1065353216, 0, T1), Spontaneous, BOOLEAN) :
         Called("MeasuredValueFloat", 0, a,
                IF ~(a.coa.Cause = Periodic \/ a.coa.Cause = Background
                     \/ a.coa.Cause = Spontaneous \/ a.coa.Cause = Request
                     \/ (a.coa.Cause >= InterrogatedByStation /\ a.coa.Cause <= InterrogatedByGroup16))
                THEN Return(ErrCmdCause)
                ELSE measuredValueFloat(a.c, M_ME_NC_1, a.isSequence, a.coa, a.ca, a.infos))

MeasuredValueFloatCP24Time2a ==
    /\ Idle
    /\ \E a \in Inputs(MeasuredValueFloatInfos, Info(1, 1065353216, 0, T1), Spontaneous, {FALSE}) :
         Called("MeasuredValueFloatCP24Time2a", 0, a,
                IF ~(a.coa.Cause = Spontaneous \/ a.coa.Cause = Request)
                THEN Return(ErrCmdCause)
                ELSE measuredValueFloat(a.c, M_ME_TC_1, FALSE, a.coa, a.ca, a.infos))

MeasuredValueFloatCP56Time2a ==
    /\ Idle
    /\ \E a \in Inputs(MeasuredValueFloatInfos, Info(1, 1065353216, 0, T1), Spontaneous, {FALSE}) :
         Called("MeasuredValueFloatCP56Time2a", 0, a,
                IF ~(a.coa.Cause = Spontaneous \/ a.coa.Cause = Request)
                THEN Return(ErrCmdCause)
                ELSE measuredValueFloat(a.c, M_ME_TF_1, FALSE, a.coa, a.ca, a.infos))

\* BinaryCounterReading{CounterReading, SeqNumber, HasCarry, IsAdjusted, IsInvalid}
BinaryCounterReading(counter, seqNumber, hasCarry, isAdjusted, isInvalid) ==
    [CounterReading |-> counter, SeqNumber |-> seqNumber, HasCarry |-> hasCarry,
     IsAdjusted |-> isAdjusted, IsInvalid |-> isInvalid]

\* BinaryCounterReadingInfo{Ioa, Value, Time}
BinaryCounterReadingInfo(ioa, value, t) == [Ioa |-> ioa, Value |-> value, Time |-> t]

integratedTotals(c, typeID, isSequence, coa, ca, infos) ==
    LET Body(u, v, once) ==
          LET a == AddrOnce(u, isSequence, once, v.Ioa)
              u1 == AppendBinaryCounterReading(a.u, v.Value)
          IN IF a.err # ErrNil THEN a
             ELSE CASE typeID = M_IT_NA_1 -> Ok(u1)
                    [] typeID = M_IT_TA_1 -> Ok(AppendBytes(u1, CP24Time2a(v.Time)))
                    [] typeID = M_IT_TB_1 -> Ok(AppendBytes(u1, CP56Time2a(v.Time)))
                    [] OTHER -> Fail(ErrTypeIDNotMatch, u1)
    IN Build(c, typeID, isSequence, coa, ca, infos, Body)

BinaryCounterReadingInfos ==
    {BinaryCounterReadingInfo(1, BinaryCounterReading(2147483647, 31, FALSE, FALSE, FALSE), T1),
     BinaryCounterReadingInfo(2, BinaryCounterReading(-2147483647, 0, TRUE, TRUE, TRUE), T2),
     BinaryCounterReadingInfo(65536, BinaryCounterReading(-1, 1, TRUE, FALSE, FALSE), T1)}

IntegratedTotals ==
    /\ Idle
    /\ \E a \in Inputs(BinaryCounterReadingInfos, BinaryCounterReadingInfo(1, BinaryCounterReading(2147483647, 31, FALSE, FALSE, FALSE), T1), Spontaneous, BOOLEAN) :
         Called("IntegratedTotals", 0, a,
                IF ~(a.coa.Cause = Spontaneous
                     \/ (a.coa.Cause >= RequestByGeneralCounter /\ a.coa.Cause <= RequestByGroup4Counter))
                THEN Return(ErrCmdCause)
                ELSE integratedTotals(a.c, M_IT_NA_1, a.isSequence, a.coa, a.ca, a.infos))

IntegratedTotalsCP24Time2a ==
    /\ Idle
    /\ \E a \in Inputs(BinaryCounterReadingInfos, BinaryCounterReadingInfo(1, BinaryCounterReading(2147483647, 31, FALSE, FALSE, FALSE), T1), Spontaneous, {FALSE}) :
         Called("IntegratedTotalsCP24Time2a", 0, a,
                IF ~(a.coa.Cause = Spontaneous
                     \/ (a.coa.Cause >= RequestByGeneralCounter /\ a.coa.Cause <= RequestByGroup4Counter))
                THEN Return(ErrCmdCause)
                ELSE integratedTotals(a.c, M_IT_TA_1, FALSE, a.coa, a.ca, a.infos))

IntegratedTotalsCP56Time2a ==
    /\ Idle
    /\ \E a \in Inputs(BinaryCounterReadingInfos, BinaryCounterReadingInfo(1, BinaryCounterReading(2147483647, 31, FALSE, FALSE, FALSE), T1), Spontaneous, {FALSE}) :
         Called("IntegratedTotalsCP56Time2a", 0, a,
                IF ~(a.coa.Cause = Spontaneous
                     \/ (a.coa.Cause >= RequestByGeneralCounter /\ a.coa.Cause <= RequestByGroup4Counter))
                THEN Return(ErrCmdCause)
                ELSE integratedTotals(a.c, M_IT_TB_1, FALSE, a.coa, a.ca, a.infos))

-----------------------------------------------------------------------------
(* Events of protection equipment and packed single points *)

\* EventOfProtectionEquipmentInfo{Ioa, Event, Qdp, Msec, Time}
EventOfProtectionEquipmentInfo(ioa, event, qdp, msec, t) ==
    [Ioa |-> ioa, Event |-> event, Qdp |-> qdp, Msec |-> msec, Time |-> t]

eventOfProtectionEquipment(c, typeID, coa, ca, infos) ==
    LET Body(u, v, once) ==
          LET a == AppendInfoObjAddr(u, v.Ioa)
              u1 == AppendBytes(a.u, <<BitOr(Byte(BitAnd(v.Event, 3)), Byte(BitAnd(v.Qdp, 248)))>>)
              u2 == AppendCP16Time2a(u1, v.Msec)
          IN IF a.err # ErrNil THEN a
             ELSE CASE typeID = M_EP_TA_1 -> Ok(AppendCP24Time2a(u2, v.Time))
                    [] typeID = M_EP_TD_1 -> Ok(AppendCP56Time2a(u2, v.Time))
                    [] OTHER -> Fail(ErrTypeIDNotMatch, u2)
    IN IF coa.Cause # Spontaneous THEN Return(ErrCmdCause)
       ELSE Build(c, typeID, FALSE, coa, ca, infos, Body)

EventOfProtectionEquipmentInfos ==
    {EventOfProtectionEquipmentInfo(1, 1, 0, 0, T1),
     EventOfProtectionEquipmentInfo(2, 2, 248, 59999, T2),
     EventOfProtectionEquipmentInfo(65536, 2, 16, 1000, T1)}

EventOfProtectionEquipmentCP24Time2a ==
    /\ Idle
    /\ \E a \in Inputs(EventOfProtectionEquipmentInfos,
                       EventOfProtectionEquipmentInfo(1, 1, 0, 0, T1), Spontaneous, {FALSE}) :
         Called("EventOfProtectionEquipmentCP24Time2a", 0, a,
                eventOfProtectionEquipment(a.c, M_EP_TA_1, a.coa, a.ca, a.infos))

EventOfProtectionEquipmentCP56Time2a ==
    /\ Idle
    /\ \E a \in Inputs(EventOfProtectionEquipmentInfos,
                       EventOfProtectionEquipmentInfo(1, 1, 0, 0, T1), Spontaneous, {FALSE}) :
         Called("EventOfProtectionEquipmentCP56Time2a", 0, a,
                eventOfProtectionEquipment(a.c, M_EP_TD_1, a.coa, a.ca, a.infos))

\* the steps of a builder of one object: no loop, the VSQ given as {false, 1}
BuildOne(c, typeID, coa, ca, ioa, Body(_)) ==
    LET chk == checkValid(c, typeID, FALSE, 1)
        u0 == NewASDU(c.params, Identifier(typeID, VariableStruct(1, FALSE), coa, 0, ca))
        a == AppendInfoObjAddr(u0, ioa)
        r == Body(a.u)
    IN IF chk # ErrNil THEN Return(chk)
       ELSE IF a.err # ErrNil THEN Return(a.err)
       ELSE IF r.err # ErrNil THEN Return(r.err)
       ELSE Send(c, r.u)

\* the calls of a routine that takes one record
InputsOne(S, r0) == {a \in Inputs(S, r0, Spontaneous, {FALSE}) : Len(a.infos) = 1}

packedStartEventsOfProtectionEquipment(c, typeID, coa, ca, info) ==
    LET Body(u) ==
          LET u1 == AppendBytes(u, <<Byte(info.Event), BitAnd(Byte(info.Qdp), 241)>>)
              u2 == AppendCP16Time2a(u1, info.Msec)
          IN CASE typeID = M_EP_TB_1 -> Ok(AppendCP24Time2a(u2, info.Time))
               [] typeID = M_EP_TE_1 -> Ok(AppendCP56Time2a(u2, info.Time))
               [] OTHER -> Fail(ErrTypeIDNotMatch, u2)
    IN IF coa.Cause # Spontaneous THEN Return(ErrCmdCause)
       ELSE BuildOne(c, typeID, coa, ca, info.Ioa, Body)

PackedStartEventsOfProtectionEquipmentInfos ==
    {EventOfProtectionEquipmentInfo(1, 63, 0, 0, T1),
     EventOfProtectionEquipmentInfo(2, 1, 248, 59999, T2),
     EventOfProtectionEquipmentInfo(65536, 0, 16, 1000, T1)}

PackedStartEventsOfProtectionEquipmentCP24Time2a ==
    /\ Idle
    /\ \E a \in InputsOne(PackedStartEventsOfProtectionEquipmentInfos,
                          EventOfProtectionEquipmentInfo(1, 63, 0, 0, T1)) :
         Called("PackedStartEventsOfProtectionEquipmentCP24Time2a", 0, a,
                packedStartEventsOfProtectionEquipment(a.c, M_EP_TB_1, a.coa, a.ca, a.infos[1]))

PackedStartEventsOfProtectionEquipmentCP56Time2a ==
    /\ Idle
    /\ \E a \in InputsOne(PackedStartEventsOfProtectionEquipmentInfos,
                          EventOfProtectionEquipmentInfo(1, 63, 0, 0, T1)) :
         Called("PackedStartEventsOfProtectionEquipmentCP56Time2a", 0, a,
                packedStartEventsOfProtectionEquipment(a.c, M_EP_TE_1, a.coa, a.ca, a.infos[1]))

\* PackedOutputCircuitInfoInfo{Ioa, Oci, Qdp, Msec, Time}
PackedOutputCircuitInfoInfo(ioa, oci, qdp, msec, t) ==
    [Ioa |-> ioa, Oci |-> oci, Qdp |-> qdp, Msec |-> msec, Time |-> t]

packedOutputCircuitInfo(c, typeID, coa, ca, info) ==
    LET Body(u) ==
          LET u1 == AppendBytes(u, <<Byte(info.Oci), BitAnd(Byte(info.Qdp), 241)>>)
              u2 == AppendCP16Time2a(u1, info.Msec)
          IN CASE typeID = M_EP_TC_1 -> Ok(AppendCP24Time2a(u2, info.Time))
               [] typeID = M_EP_TF_1 -> Ok(AppendCP56Time2a(u2, info.Time))
               [] OTHER -> Fail(ErrTypeIDNotMatch, u2)
    IN IF coa.Cause # Spontaneous THEN Return(ErrCmdCause)
       ELSE BuildOne(c, typeID, coa, ca, info.Ioa, Body)

PackedOutputCircuitInfoInfos ==
    {PackedOutputCircuitInfoInfo(1, 15, 0, 0, T1),
     PackedOutputCircuitInfoInfo(2, 1, 248, 59999, T2),
     PackedOutputCircuitInfoInfo(65536, 0, 16, 1000, T1)}

PackedOutputCircuitInfoCP24Time2a ==
    /\ Idle
    /\ \E a \in InputsOne(PackedOutputCircuitInfoInfos, PackedOutputCircuitInfoInfo(1, 15, 0, 0, T1)) :
         Called("PackedOutputCircuitInfoCP24Time2a", 0, a,
                packedOutputCircuitInfo(a.c, M_EP_TC_1, a.coa, a.ca, a.infos[1]))

PackedOutputCircuitInfoCP56Time2a ==
    /\ Idle
    /\ \E a \in InputsOne(PackedOutputCircuitInfoInfos, PackedOutputCircuitInfoInfo(1, 15, 0, 0, T1)) :
         Called("PackedOutputCircuitInfoCP56Time2a", 0, a,
                packedOutputCircuitInfo(a.c, M_EP_TF_1, a.coa, a.ca, a.infos[1]))

\* PackedSinglePointWithSCDInfo{Ioa, Scd, Qds}
PackedSinglePointWithSCDInfo(ioa, scd, qds) == [Ioa |-> ioa, Scd |-> scd, Qds |-> qds]

PackedSinglePointWithSCDInfos ==
    {PackedSinglePointWithSCDInfo(1, 305419896, 0),
     PackedSinglePointWithSCDInfo(2, -1, 241),
     PackedSinglePointWithSCDInfo(65536, 0, 16),
     PackedSinglePointWithSCDInfo(3, 1, 255)}

PackedSinglePointWithSCD ==
    /\ Idle
    /\ \E a \in Inputs(PackedSinglePointWithSCDInfos, PackedSinglePointWithSCDInfo(1, 305419896, 0),
                       Spontaneous, BOOLEAN) :
         LET Body(u, v, once) ==
               LET r == AddrOnce(u, a.isSequence, once, v.Ioa) IN
               IF r.err # ErrNil THEN r
               ELSE Ok(AppendBytes(AppendStatusAndStatusChangeDetection(r.u, v.Scd), <<Byte(v.Qds)>>))
         IN Called("PackedSinglePointWithSCD", 0, a,
                   IF ~(a.coa.Cause = Background \/ a.coa.Cause = Spontaneous \/ a.coa.Cause = Request
                        \/ a.coa.Cause = ReturnInfoRemote \/ a.coa.Cause = ReturnInfoLocal
                        \/ (a.coa.Cause >= InterrogatedByStation /\ a.coa.Cause <= InterrogatedByGroup16))
                   THEN Return(ErrCmdCause)
                   ELSE Build(a.c, M_PS_NA_1, a.isSequence, a.coa, a.ca, a.infos, Body))

-----------------------------------------------------------------------------
(* Process information in the control direction *)

\* every value a TypeID argument is tried with
TypeIDs == 0..127

\* QualifierOfCommand{Qual, InSelect}
QualifierOfCommand(qual, inSelect) == [Qual |-> qual, InSelect |-> inSelect]

QualifierOfCommandValue(sf) ==
    LET v == (BitAnd(Byte(sf.Qual), 31) * 4) % 256 IN
    IF sf.InSelect THEN BitOr(v, 128) ELSE v

\* QualifierOfSetpointCmd{Qual, InSelect}
QualifierOfSetpointCmd(qual, inSelect) == [Qual |-> qual, InSelect |-> inSelect]

QualifierOfSetpointCmdValue(sf) ==
    LET v == BitAnd(Byte(sf.Qual), 127) IN
    IF sf.InSelect THEN BitOr(v, 128) ELSE v

\* SingleCommandInfo and the other command structs {Ioa, Value, Qoc or Qos, Time}
CommandInfo(ioa, value, q, t) == [Ioa |-> ioa, Value |-> value, Q |-> q, Time |-> t]

\* the calls tried for a command routine: a TypeID, the arguments, one command
CmdInputs(S, r0, own) ==
    \* every cause and flag
    {[typeID |-> id, a |-> Args(Connect(DefaultParams, ErrNil), FALSE, CauseOfTransmission(t, n, cause), 1, <<r0>>)] :
        id \in own, t \in BOOLEAN, n \in BOOLEAN, cause \in Causes}
    \cup
    \* every TypeID, with a cause that is admitted and one that is not
    {[typeID |-> id, a |-> Args(Connect(DefaultParams, ErrNil), FALSE, CauseOfTransmission(FALSE, FALSE, cause), 1, <<r0>>)] :
        id \in TypeIDs, cause \in {Activation, Spontaneous}}
    \cup
    \* every command, on every Connect, under its own and under a foreign TypeID
    {[typeID |-> id, a |-> Args(Connect(p, ErrNil), FALSE, CauseOfTransmission(FALSE, FALSE, cause), 1, <<r>>)] :
        id \in own \cup {M_SP_NA_1}, p \in ParamsSet, cause \in {Activation, Deactivation}, r \in S}
    \cup
    \* a transport that fails
    {[typeID |-> id, a |-> Args(Connect(DefaultParams, ErrSend), FALSE, CauseOfTransmission(FALSE, FALSE, Activation), 1, <<r0>>)] :
        id \in own}

\* the steps every command routine takes: Body(u) appends the command and
\* switches on the TypeID
Command(c, typeID, coa, ca, ioa, Body(_)) ==
    LET u0 == NewASDU(c.params, Identifier(typeID, VariableStruct(1, FALSE), coa, 0, ca))
        a == AppendInfoObjAddr(u0, ioa)
        r == Body(a.u)
    IN IF ~(coa.Cause = Activation \/ coa.Cause = Deactivation) THEN Return(ErrCmdCause)
       ELSE IF ParamsValid(c.params) # ErrNil THEN Return(ParamsValid(c.params))
       ELSE IF a.err # ErrNil THEN Return(a.err)
       ELSE IF r.err # ErrNil THEN Return(r.err)
       ELSE Send(c, r.u)

SingleCommandInfos ==
    {CommandInfo(1, TRUE, QualifierOfCommand(0, FALSE), T1), CommandInfo(2, FALSE, QualifierOfCommand(31, TRUE), T2),
     CommandInfo(65536, TRUE, QualifierOfCommand(1, TRUE), T1)}

SingleCmd ==
    /\ Idle
    /\ \E i \in CmdInputs(SingleCommandInfos, CommandInfo(1, TRUE, QualifierOfCommand(0, FALSE), T1), {C_SC_NA_1, C_SC_TA_1}) :
         LET cmd == i.a.infos[1]
             Body(u) ==
               LET u1 == AppendBytes(u, <<IF cmd.Value THEN BitOr(QualifierOfCommandValue(cmd.Q), 1)
                                          ELSE QualifierOfCommandValue(cmd.Q)>>)
               IN CASE i.typeID = C_SC_NA_1 -> Ok(u1)
                    [] i.typeID = C_SC_TA_1 -> Ok(AppendBytes(u1, CP56Time2a(cmd.Time)))
                    [] OTHER -> Fail(ErrTypeIDNotMatch, u1)
         IN Called("SingleCmd", i.typeID, i.a, Command(i.a.c, i.typeID, i.a.coa, i.a.ca, cmd.Ioa, Body))

DoubleCommandInfos ==
    {CommandInfo(1, 1, QualifierOfCommand(0, FALSE), T1), CommandInfo(2, 2, QualifierOfCommand(31, TRUE), T2),
     CommandInfo(65536, 3, QualifierOfCommand(1, TRUE), T1)}

DoubleCmd ==
    /\ Idle
    /\ \E i \in CmdInputs(DoubleCommandInfos, CommandInfo(1, 1, QualifierOfCommand(0, FALSE), T1), {C_DC_NA_1, C_DC_TA_1}) :
         LET cmd == i.a.infos[1]
             Body(u) ==
               LET u1 == AppendBytes(u, <<BitOr(QualifierOfCommandValue(cmd.Q), Byte(BitAnd(cmd.Value, 3)))>>)
               IN CASE i.typeID = C_DC_NA_1 -> Ok(u1)
                    [] i.typeID = C_DC_TA_1 -> Ok(AppendBytes(u1, CP56Time2a(cmd.Time)))
                    [] OTHER -> Fail(ErrTypeIDNotMatch, u1)
         IN Called("DoubleCmd", i.typeID, i.a, Command(i.a.c, i.typeID, i.a.coa, i.a.ca, cmd.Ioa, Body))

StepCommandInfos ==
    {CommandInfo(1, 1, QualifierOfCommand(0, FALSE), T1), CommandInfo(2, 2, QualifierOfCommand(31, TRUE), T2),
     CommandInfo(65536, 3, QualifierOfCommand(1, TRUE), T1)}

\* StepCmd without the default case of its switch on the TypeID
StepCmdAnyType ==
    /\ Idle
    /\ \E i \in CmdInputs(StepCommandInfos, CommandInfo(1, 1, QualifierOfCommand(0, FALSE), T1), {C_RC_NA_1, C_RC_TA_1}) :
         LET cmd == i.a.infos[1]
             Body(u) ==
               LET u1 == AppendBytes(u, <<BitOr(QualifierOfCommandValue(cmd.Q), Byte(BitAnd(cmd.Value, 3)))>>)
               IN CASE i.typeID = C_RC_NA_1 -> Ok(u1)
                    [] i.typeID = C_RC_TA_1 -> Ok(AppendBytes(u1, CP56Time2a(cmd.Time)))
                    [] OTHER -> Ok(u1)
         IN Called("StepCmd", i.typeID, i.a, Command(i.a.c, i.typeID, i.a.coa, i.a.ca, cmd.Ioa, Body))

StepCmd ==
    /\ Idle
    /\ \E i \in CmdInputs(StepCommandInfos, CommandInfo(1, 1, QualifierOfCommand(0, FALSE), T1), {C_RC_NA_1, C_RC_TA_1}) :
         LET cmd == i.a.infos[1]
             Body(u) ==
               LET u1 == AppendBytes(u, <<BitOr(QualifierOfCommandValue(cmd.Q), Byte(BitAnd(cmd.Value, 3)))>>)
               IN CASE i.typeID = C_RC_NA_1 -> Ok(u1)
                    [] i.typeID = C_RC_TA_1 -> Ok(AppendBytes(u1, CP56Time2a(cmd.Time)))
                    [] OTHER -> Fail(ErrTypeIDNotMatch, u1)
         IN Called("StepCmd", i.typeID, i.a, Command(i.a.c, i.typeID, i.a.coa, i.a.ca, cmd.Ioa, Body))

SetpointCommandNormalInfos ==
    {CommandInfo(1, 32767, QualifierOfSetpointCmd(0, FALSE), T1), CommandInfo(2, -32768, QualifierOfSetpointCmd(31, TRUE), T2),
     CommandInfo(65536, -1, QualifierOfSetpointCmd(1, TRUE), T1)}

SetpointCmdNormal ==
    /\ Idle
    /\ \E i \in CmdInputs(SetpointCommandNormalInfos, CommandInfo(1, 32767, QualifierOfSetpointCmd(0, FALSE), T1), {C_SE_NA_1, C_SE_TA_1}) :
         LET cmd == i.a.infos[1]
             Body(u) ==
               LET u1 == AppendBytes(AppendNormalize(u, cmd.Value), <<QualifierOfSetpointCmdValue(cmd.Q)>>)
               IN CASE i.typeID = C_SE_NA_1 -> Ok(u1)
                    [] i.typeID = C_SE_TA_1 -> Ok(AppendBytes(u1, CP56Time2a(cmd.Time)))
                    [] OTHER -> Fail(ErrTypeIDNotMatch, u1)
         IN Called("SetpointCmdNormal", i.typeID, i.a, Command(i.a.c, i.typeID, i.a.coa, i.a.ca, cmd.Ioa, Body))

SetpointCommandScaledInfos ==
    {CommandInfo(1, 32767, QualifierOfSetpointCmd(0, FALSE), T1), CommandInfo(2, -32768, QualifierOfSetpointCmd(31, TRUE), T2),
     CommandInfo(65536, -1, QualifierOfSetpointCmd(1, TRUE), T1)}

SetpointCmdScaled ==
    /\ Idle
    /\ \E i \in CmdInputs(SetpointCommandScaledInfos, CommandInfo(1, 32767, QualifierOfSetpointCmd(0, FALSE), T1), {C_SE_NB_1, C_SE_TB_1}) :
         LET cmd == i.a.infos[1]
             Body(u) ==
               LET u1 == AppendBytes(AppendScaled(u, cmd.Value), <<QualifierOfSetpointCmdValue(cmd.Q)>>)
               IN CASE i.typeID = C_SE_NB_1 -> Ok(u1)
                    [] i.typeID = C_SE_TB_1 -> Ok(AppendBytes(u1, CP56Time2a(cmd.Time)))
                    [] OTHER -> Fail(ErrTypeIDNotMatch, u1)
         IN Called("SetpointCmdScaled", i.typeID, i.a, Command(i.a.c, i.typeID, i.a.coa, i.a.ca, cmd.Ioa, Body))

SetpointCommandFloatInfos ==
    {CommandInfo(1, 1065353216, QualifierOfSetpointCmd(0, FALSE), T1), CommandInfo(2, -1082130432, QualifierOfSetpointCmd(31, TRUE), T2),
     CommandInfo(65536, 0, QualifierOfSetpointCmd(1, TRUE), T1)}

SetpointCmdFloat ==
    /\ Idle
    /\ \E i \in CmdInputs(SetpointCommandFloatInfos, CommandInfo(1, 1065353216, QualifierOfSetpointCmd(0, FALSE), T1), {C_SE_NC_1, C_SE_TC_1}) :
         LET cmd == i.a.infos[1]
             Body(u) ==
               LET u1 == AppendBytes(AppendFloat32(u, cmd.Value), <<QualifierOfSetpointCmdValue(cmd.Q)>>)
               IN CASE i.typeID = C_SE_NC_1 -> Ok(u1)
                    [] i.typeID = C_SE_TC_1 -> Ok(AppendBytes(u1, CP56Time2a(cmd.Time)))
                    [] OTHER -> Fail(ErrTypeIDNotMatch, u1)
         IN Called("SetpointCmdFloat", i.typeID, i.a, Command(i.a.c, i.typeID, i.a.coa, i.a.ca, cmd.Ioa, Body))

BitsString32CommandInfos ==
    {CommandInfo(1, 305419896, QualifierOfCommand(0, FALSE), T1), CommandInfo(2, -1, QualifierOfCommand(31, TRUE), T2),
     CommandInfo(65536, 0, QualifierOfCommand(1, TRUE), T1)}

BitsString32Cmd ==
    /\ Idle
    /\ \E i \in CmdInputs(BitsString32CommandInfos, CommandInfo(1, 305419896, QualifierOfCommand(0, FALSE), T1), {C_BO_NA_1, C_BO_TA_1}) :
         LET cmd == i.a.infos[1]
             Body(u) ==
               LET u1 == AppendBitsString32(u, cmd.Value)
               IN CASE i.typeID = C_BO_NA_1 -> Ok(u1)
                    [] i.typeID = C_BO_TA_1 -> Ok(AppendBytes(u1, CP56Time2a(cmd.Time)))
                    [] OTHER -> Fail(ErrTypeIDNotMatch, u1)
         IN Called("BitsString32Cmd", i.typeID, i.a, Command(i.a.c, i.typeID, i.a.coa, i.a.ca, cmd.Ioa, Body))

-----------------------------------------------------------------------------
(* System information and parameters in the control direction; end of      *)
(* initialization                                                         *)

InfoObjAddrIrrelevant == 0

FBPTestWord == 21930

\* QualifierCountCall{Request, Freeze}
QualifierCountCall(request, freeze) == [Request |-> request, Freeze |-> freeze]

QualifierCountCallValue(sf) ==
    BitOr(Byte(BitAnd(sf.Request, 63)), Byte(BitAnd(sf.Freeze, 192)))

\* QualifierOfParameterMV{Category, IsChange, IsInOperation}
QualifierOfParameterMV(category, isChange, isInOperation) ==
    [Category |-> category, IsChange |-> isChange, IsInOperation |-> isInOperation]

QualifierOfParameterMVValue(sf) ==
    LET v0 == BitAnd(Byte(sf.Category), 63)
        v1 == IF sf.IsChange THEN BitOr(v0, 64) ELSE v0
    IN IF sf.IsInOperation THEN BitOr(v1, 128) ELSE v1

\* CauseOfInitial{Cause, IsLocalChange}
CauseOfInitial(cause, isLocalChange) == [Cause |-> cause, IsLocalChange |-> isLocalChange]

CauseOfInitialValue(sf) ==
    IF sf.IsLocalChange THEN Byte(BitOr(sf.Cause, 128)) ELSE Byte(sf.Cause)

\* the calls tried for a routine that takes the arguments l of L besides
\* the Connect, the cause and the common address
SysInputs(L, l0) ==
    \* every cause and flag
    {Args(Connect(DefaultParams, ErrNil), FALSE, CauseOfTransmission(t, n, cause), 1, l0) :
        t \in BOOLEAN, n \in BOOLEAN, cause \in Causes}
    \cup
    \* every argument, on every Connect
    {Args(Connect(p, ErrNil), FALSE, CauseOfTransmission(FALSE, FALSE, cause), 65535, l) :
        p \in ParamsSet, cause \in {Activation, Deactivation, Request}, l \in L}
    \cup
    \* a transport that fails
    {Args(Connect(DefaultParams, ErrSend), FALSE, CauseOfTransmission(FALSE, FALSE, Activation), 1, l0)}

\* the steps of a routine that sends one object: Params().Valid(), NewASDU
\* with the VSQ {false, 1}, AppendInfoObjAddr, the appends of Body, Send
Object(c, typeID, coa, ca, ioa, Body(_)) ==
    LET u0 == NewASDU(c.params, Identifier(typeID, VariableStruct(1, FALSE), coa, 0, ca))
        a == AppendInfoObjAddr(u0, ioa)
    IN IF ParamsValid(c.params) # ErrNil THEN Return(ParamsValid(c.params))
       ELSE IF a.err # ErrNil THEN Return(a.err)
       ELSE Send(c, Body(a.u))

\* the cause of the caller left as it is
WithCauseOfCaller(coa, cause) == coa

\* coa.Cause = cause
WithCause(coa, cause) == [coa EXCEPT !.Cause = cause]

InterrogationCmd ==
    /\ Idle
    /\ \E a \in SysInputs({<<20>>, <<36>>, <<255>>}, <<20>>) :
         LET qoi == a.infos[1]
             Body(u) == AppendBytes(u, <<Byte(qoi)>>)
         IN Called("InterrogationCmd", 0, a,
                   IF ~(a.coa.Cause = Activation \/ a.coa.Cause = Deactivation)
                   THEN Return(ErrCmdCause)
                   ELSE Object(a.c, C_IC_NA_1, a.coa, a.ca, InfoObjAddrIrrelevant, Body))

CounterInterrogationCmd ==
    /\ Idle
    /\ \E a \in SysInputs({<<QualifierCountCall(5, 0)>>, <<QualifierCountCall(63, 192)>>},
                          <<QualifierCountCall(5, 0)>>) :
         LET qcc == a.infos[1]
             Body(u) == AppendBytes(u, <<QualifierCountCallValue(qcc)>>)
         IN Called("CounterInterrogationCmd", 0, a,
                   Object(a.c, C_CI_NA_1, WithCause(a.coa, Activation), a.ca, InfoObjAddrIrrelevant, Body))

ReadCmd ==
    /\ Idle
    /\ \E a \in SysInputs({<<1>>, <<256>>, <<65536>>}, <<1>>) :
         LET ioa == a.infos[1]
             Body(u) == u
         IN Called("ReadCmd", 0, a,
                   Object(a.c, C_RD_NA_1, WithCause(a.coa, Request), a.ca, ioa, Body))

ClockSynchronizationCmd ==
    /\ Idle
    /\ \E a \in SysInputs({<<T1>>, <<T2>>}, <<T1>>) :
         LET t == a.infos[1]
             Body(u) == AppendBytes(u, CP56Time2a(t))
         IN Called("ClockSynchronizationCmd", 0, a,
                   Object(a.c, C_CS_NA_1, WithCause(a.coa, Activation), a.ca, InfoObjAddrIrrelevant, Body))

TestCommand ==
    /\ Idle
    /\ \E a \in SysInputs({<<>>}, <<>>) :
         LET Body(u) == AppendBytes(u, <<Byte(BitAnd(FBPTestWord, 255)), Byte(Shr8(FBPTestWord))>>)
         IN Called("TestCommand", 0, a,
                   Object(a.c, C_TS_NA_1, WithCause(a.coa, Activation), a.ca, InfoObjAddrIrrelevant, Body))

ResetProcessCmd ==
    /\ Idle
    /\ \E a \in SysInputs({<<1>>, <<2>>, <<255>>}, <<1>>) :
         LET qrp == a.infos[1]
             Body(u) == AppendBytes(u, <<Byte(qrp)>>)
         IN Called("ResetProcessCmd", 0, a,
                   Object(a.c, C_RP_NA_1, WithCause(a.coa, Activation), a.ca, InfoObjAddrIrrelevant, Body))

DelayAcquireCommand ==
    /\ Idle
    /\ \E a \in SysInputs({<<0>>, <<59999>>, <<65535>>}, <<0>>) :
         LET msec == a.infos[1]
             Body(u) == AppendCP16Time2a(u, msec)
         IN Called("DelayAcquireCommand", 0, a,
                   IF ~(a.coa.Cause = Spontaneous \/ a.coa.Cause = Activation)
                   THEN Return(ErrCmdCause)
                   ELSE Object(a.c, C_CD_NA_1, a.coa, a.ca, InfoObjAddrIrrelevant, Body))

TestCommandCP56Time2a ==
    /\ Idle
    /\ \E a \in SysInputs({<<T1>>, <<T2>>}, <<T1>>) :
         LET t == a.infos[1]
             Body(u) == AppendCP56Time2a(AppendUint16(u, FBPTestWord), t)
         IN Called("TestCommandCP56Time2a", 0, a,
                   Object(a.c, C_TS_TA_1, a.coa, a.ca, InfoObjAddrIrrelevant, Body))

\* ParameterNormalInfo, ParameterScaledInfo, ParameterFloatInfo {Ioa, Value, Qpm}
ParameterInfo(ioa, value, qpm) == [Ioa |-> ioa, Value |-> value, Qpm |-> qpm]

ParameterInfos ==
    {<<ParameterInfo(1, 32767, QualifierOfParameterMV(1, FALSE, FALSE))>>,
     <<ParameterInfo(256, -32768, QualifierOfParameterMV(63, TRUE, TRUE))>>,
     <<ParameterInfo(65536, -1, QualifierOfParameterMV(4, TRUE, FALSE))>>}

ParameterNormal ==
    /\ Idle
    /\ \E a \in SysInputs(ParameterInfos, <<ParameterInfo(1, 32767, QualifierOfParameterMV(1, FALSE, FALSE))>>) :
         LET p == a.infos[1]
             Body(u) == AppendBytes(AppendNormalize(u, p.Value), <<QualifierOfParameterMVValue(p.Qpm)>>)
         IN Called("ParameterNormal", 0, a,
                   IF a.coa.Cause # Activation
                   THEN Return(ErrCmdCause)
                   ELSE Object(a.c, P_ME_NA_1, a.coa, a.ca, p.Ioa, Body))

ParameterScaled ==
    /\ Idle
    /\ \E a \in SysInputs(ParameterInfos, <<ParameterInfo(1, 32767, QualifierOfParameterMV(1, FALSE, FALSE))>>) :
         LET p == a.infos[1]
             Body(u) == AppendBytes(AppendScaled(u, p.Value), <<QualifierOfParameterMVValue(p.Qpm)>>)
         IN Called("ParameterScaled", 0, a,
                   IF a.coa.Cause # Activation
                   THEN Return(ErrCmdCause)
                   ELSE Object(a.c, P_ME_NB_1, a.coa, a.ca, p.Ioa, Body))

ParameterFloat ==
    /\ Idle
    /\ \E a \in SysInputs(ParameterInfos, <<ParameterInfo(1, 32767, QualifierOfParameterMV(1, FALSE, FALSE))>>) :
         LET p == a.infos[1]
             Body(u) == AppendBytes(AppendFloat32(u, p.Value), <<QualifierOfParameterMVValue(p.Qpm)>>)
         IN Called("ParameterFloat", 0, a,
                   IF a.coa.Cause # Activation
                   THEN Return(ErrCmdCause)
                   ELSE Object(a.c, P_ME_NC_1, a.coa, a.ca, p.Ioa, Body))

\* ParameterActivationInfo{Ioa, Qpa}
ParameterActivationInfo(ioa, qpa) == [Ioa |-> ioa, Qpa |-> qpa]

ParameterActivation ==
    /\ Idle
    /\ \E a \in SysInputs({<<ParameterActivationInfo(1, 1)>>, <<ParameterActivationInfo(65536, 3)>>},
                          <<ParameterActivationInfo(1, 1)>>) :
         LET p == a.infos[1]
             Body(u) == AppendBytes(u, <<Byte(p.Qpa)>>)
         IN Called("ParameterActivation", 0, a,
                   IF ~(a.coa.Cause = Activation \/ a.coa.Cause = Deactivation)
                   THEN Return(ErrCmdCause)
                   ELSE Object(a.c, P_AC_NA_1, a.coa, a.ca, p.Ioa, Body))

EndOfInitialization ==
    /\ Idle
    /\ \E a \in SysInputs({<<1, CauseOfInitial(0, FALSE)>>, <<65536, CauseOfInitial(2, TRUE)>>},
                          <<1, CauseOfInitial(0, FALSE)>>) :
         LET ioa == a.infos[1]
             coi == a.infos[2]
             Body(u) == AppendBytes(u, <<CauseOfInitialValue(coi)>>)
         IN Called("EndOfInitialization", 0, a,
                   Object(a.c, M_EI_NA_1, WithCause(a.coa, Initialized), a.ca, ioa, Body))

-----------------------------------------------------------------------------
(* Parsing an ASDU, asdu/identifier.go.  A parser returns its records, or  *)
(* panics: with ErrTypeIDNotMatch in the default case of its type switch,  *)
(* with ErrParam for an address width out of range, and with a runtime     *)
(* error when the read cursor runs over the end of the payload.            *)

ErrIndexOutOfRange == "runtime error: index out of range"

\* the read cursor has n bytes left
Has(u, n) == Len(u.infoObj) >= n

Read(v, u) == [panic |-> ErrNil, v |-> v, u |-> u]

Panic(err, u) == [panic |-> err, v |-> 0, u |-> u]

\* a Decode of n bytes, which panics on a shorter payload
Checked(u, n, d) == IF Has(u, n) THEN Read(d.v, d.u) ELSE Panic(ErrIndexOutOfRange, u)

\* switch sf.Type of a parser whose cases are no time tag, CP24 and CP56
SwitchTime(u, none, cp24, cp56) ==
    CASE u.Type = none -> Read(ZeroTime, u)
      [] u.Type = cp24 -> Checked(u, 3, DecodeCP24Time2a(u))
      [] u.Type = cp56 -> Checked(u, 7, DecodeCP56Time2a(u))
      [] OTHER -> Panic(ErrTypeIDNotMatch, u)

\* for i, once := 0, false; i < int(sf.Variable.Number); i++ { ... }:
\* a pass decodes the address, or counts it up in a sequence, and then
\* Record(u, infoObjAddr) decodes one record.  reads counts the addresses
\* decoded.  Passes lo..hi run in order, the first half and then the second.
ParseEach(u0, Record(_, _)) ==
    LET size == u0.Params.InfoObjAddrSize
        Pass(s, i) ==
          LET decode == ~u0.Variable.IsSequence \/ i = 1
              a == IF decode THEN DecodeInfoObjAddr(s.u) ELSE [v |-> s.infoObjAddr + 1, u |-> s.u]
              r == Record(a.u, a.v)
          IN IF s.panic # ErrNil THEN s
             ELSE IF decode /\ size \notin {1, 2, 3} THEN [s EXCEPT !.panic = ErrParam]
             ELSE IF decode /\ ~Has(s.u, size) THEN [s EXCEPT !.panic = ErrIndexOutOfRange]
             ELSE IF r.panic # ErrNil THEN [s EXCEPT !.panic = r.panic]
             ELSE [panic |-> ErrNil, u |-> r.u, infoObjAddr |-> a.v,
                   info |-> Append(s.info, r.v),
                   reads |-> IF decode THEN s.reads + 1 ELSE s.reads]
        RECURSIVE Passes(_, _, _)
        Passes(s, lo, hi) ==
          IF lo > hi THEN s
          ELSE IF lo = hi THEN Pass(s, lo)
          ELSE LET first == Passes(s, lo, (lo + hi) \div 2) IN
               IF first.panic # ErrNil THEN first
               ELSE Passes(first, ((lo + hi) \div 2) + 1, hi)
    IN Passes([panic |-> ErrNil, u |-> u0, infoObjAddr |-> 0, info |-> <<>>, reads |-> 0],
           1, u0.Variable.Number)

\* GetSinglePoint decoding an address for every record of a sequence too
GetSinglePointEveryAddr(sf) ==
    LET Record(u, infoObjAddr) ==
          LET value == Checked(u, 1, DecodeByte(u))
              t == SwitchTime(value.u, M_SP_NA_1, M_SP_TA_1, M_SP_TB_1)
          IN IF value.panic # ErrNil THEN value
             ELSE IF t.panic # ErrNil THEN t
             ELSE Read(Info(infoObjAddr, BitAnd(value.v, 1) = 1, BitAnd(value.v, 240), t.v), t.u)
    IN ParseEach([sf EXCEPT !.Variable.IsSequence = FALSE], Record)

GetSinglePoint(sf) ==
    LET Record(u, infoObjAddr) ==
          LET value == Checked(u, 1, DecodeByte(u))
              t == SwitchTime(value.u, M_SP_NA_1, M_SP_TA_1, M_SP_TB_1)
          IN IF value.panic # ErrNil THEN value
             ELSE IF t.panic # ErrNil THEN t
             ELSE Read(Info(infoObjAddr, BitAnd(value.v, 1) = 1, BitAnd(value.v, 240), t.v), t.u)
    IN ParseEach(sf, Record)

GetDoublePoint(sf) ==
    LET Record(u, infoObjAddr) ==
          LET value == Checked(u, 1, DecodeByte(u))
              t == SwitchTime(value.u, M_DP_NA_1, M_DP_TA_1, M_DP_TB_1)
          IN IF value.panic # ErrNil THEN value
             ELSE IF t.panic # ErrNil THEN t
             ELSE Read(Info(infoObjAddr, BitAnd(value.v, 3), BitAnd(value.v, 240), t.v), t.u)
    IN ParseEach(sf, Record)

GetStepPosition(sf) ==
    LET Record(u, infoObjAddr) ==
          LET value == Checked(u, 1, DecodeByte(u))
              qds == Checked(value.u, 1, DecodeByte(value.u))
              t == SwitchTime(qds.u, M_ST_NA_1, M_ST_TA_1, M_ST_TB_1)
          IN IF value.panic # ErrNil THEN value
             ELSE IF qds.panic # ErrNil THEN qds
             ELSE IF t.panic # ErrNil THEN t
             ELSE Read(Info(infoObjAddr, ParseStepPosition(value.v), qds.v, t.v), t.u)
    IN ParseEach(sf, Record)

GetBitString32(sf) ==
    LET Record(u, infoObjAddr) ==
          LET value == Checked(u, 4, DecodeBitsString32(u))
              qds == Checked(value.u, 1, DecodeByte(value.u))
              t == SwitchTime(qds.u, M_BO_NA_1, M_BO_TA_1, M_BO_TB_1)
          IN IF value.panic # ErrNil THEN value
             ELSE IF qds.panic # ErrNil THEN qds
             ELSE IF t.panic # ErrNil THEN t
             ELSE Read(Info(infoObjAddr, value.v, qds.v, t.v), t.u)
    IN ParseEach(sf, Record)

GetMeasuredValueNormal(sf) ==
    LET Record(u, infoObjAddr) ==
          LET value == Checked(u, 2, DecodeNormalize(u))
              qds == Checked(value.u, 1, DecodeByte(value.u))
              t == CASE sf.Type = M_ME_NA_1 -> Read(ZeroTime, qds.u)
                     [] sf.Type = M_ME_TA_1 -> Checked(qds.u, 3, DecodeCP24Time2a(qds.u))
                     [] sf.Type = M_ME_TD_1 -> Checked(qds.u, 7, DecodeCP56Time2a(qds.u))
          IN IF value.panic # ErrNil THEN value
             ELSE IF sf.Type = M_ME_ND_1 THEN Read(Info(infoObjAddr, value.v, 0, ZeroTime), value.u)
             ELSE IF sf.Type \notin {M_ME_NA_1, M_ME_TA_1, M_ME_TD_1} THEN Panic(ErrTypeIDNotMatch, value.u)
             ELSE IF qds.panic # ErrNil THEN qds
             ELSE IF t.panic # ErrNil THEN t
             ELSE Read(Info(infoObjAddr, value.v, qds.v, t.v), t.u)
    IN ParseEach(sf, Record)

GetMeasuredValueScaled(sf) ==
    LET Record(u, infoObjAddr) ==
          LET value == Checked(u, 2, DecodeScaled(u))
              qds == Checked(value.u, 1, DecodeByte(value.u))
              t == SwitchTime(qds.u, M_ME_NB_1, M_ME_TB_1, M_ME_TE_1)
          IN IF value.panic # ErrNil THEN value
             ELSE IF qds.panic # ErrNil THEN qds
             ELSE IF t.panic # ErrNil THEN t
             ELSE Read(Info(infoObjAddr, value.v, qds.v, t.v), t.u)
    IN ParseEach(sf, Record)

GetMeasuredValueFloat(sf) ==
    LET Record(u, infoObjAddr) ==
          LET value == Checked(u, 4, DecodeFloat(u))
              qua == Checked(value.u, 1, DecodeByte(value.u))
              t == SwitchTime(qua.u, M_ME_NC_1, M_ME_TC_1, M_ME_TF_1)
          IN IF value.panic # ErrNil THEN value
             ELSE IF qua.panic # ErrNil THEN qua
             ELSE IF t.panic # ErrNil THEN t
             ELSE Read(Info(infoObjAddr, value.v, BitAnd(qua.v, 241), t.v), t.u)
    IN ParseEach(sf, Record)

GetIntegratedTotals(sf) ==
    LET Record(u, infoObjAddr) ==
          LET value == Checked(u, 5, DecodeBinaryCounterReading(u))
              t == SwitchTime(value.u, M_IT_NA_1, M_IT_TA_1, M_IT_TB_1)
          IN IF value.panic # ErrNil THEN value
             ELSE IF t.panic # ErrNil THEN t
             ELSE Read(BinaryCounterReadingInfo(infoObjAddr, value.v, t.v), t.u)
    IN ParseEach(sf, Record)

\* switch sf.Type of a parser of protection events: CP24 or CP56
SwitchTimeTagged(u, cp24, cp56) ==
    CASE u.Type = cp24 -> Checked(u, 3, DecodeCP24Time2a(u))
      [] u.Type = cp56 -> Checked(u, 7, DecodeCP56Time2a(u))
      [] OTHER -> Panic(ErrTypeIDNotMatch, u)

GetEventOfProtectionEquipment(sf) ==
    LET Record(u, infoObjAddr) ==
          LET value == Checked(u, 1, DecodeByte(u))
              msec == Checked(value.u, 2, DecodeCP16Time2a(value.u))
              t == SwitchTimeTagged(msec.u, M_EP_TA_1, M_EP_TD_1)
          IN IF value.panic # ErrNil THEN value
             ELSE IF msec.panic # ErrNil THEN msec
             ELSE IF t.panic # ErrNil THEN t
             ELSE Read(EventOfProtectionEquipmentInfo(infoObjAddr, BitAnd(value.v, 3),
                                                      BitAnd(value.v, 241), msec.v, t.v), t.u)
    IN ParseEach(sf, Record)

\* the steps of a parser of one packed object: the zero record unless the
\* VSQ is {false, 1}; Make(ioa, b, qdp, msec, t) is the record returned
ParseOne(sf, cp24, cp56, Make(_, _, _, _, _)) ==
    LET size == sf.Params.InfoObjAddrSize
        ioa == DecodeInfoObjAddr(sf)
        b == Checked(ioa.u, 1, DecodeByte(ioa.u))
        qdp == Checked(b.u, 1, DecodeByte(b.u))
        msec == Checked(qdp.u, 2, DecodeCP16Time2a(qdp.u))
        t == SwitchTimeTagged(msec.u, cp24, cp56)
        Panicked(err) == [panic |-> err, info |-> <<>>, reads |-> 0]
    IN IF sf.Variable.IsSequence \/ sf.Variable.Number # 1
       THEN [panic |-> ErrNil, info |-> <<Make(0, 0, 0, 0, ZeroTime)>>, reads |-> 0]
       ELSE IF size \notin {1, 2, 3} THEN Panicked(ErrParam)
       ELSE IF ~Has(sf, size) THEN Panicked(ErrIndexOutOfRange)
       ELSE IF b.panic # ErrNil THEN Panicked(b.panic)
       ELSE IF qdp.panic # ErrNil THEN Panicked(qdp.panic)
       ELSE IF msec.panic # ErrNil THEN Panicked(msec.panic)
       ELSE IF t.panic # ErrNil THEN Panicked(t.panic)
       ELSE [panic |-> ErrNil, info |-> <<Make(ioa.v, b.v, BitAnd(qdp.v, 241), msec.v, t.v)>>,
             reads |-> 1]

GetPackedStartEventsOfProtectionEquipment(sf) ==
    ParseOne(sf, M_EP_TB_1, M_EP_TE_1, EventOfProtectionEquipmentInfo)

GetPackedOutputCircuitInfo(sf) ==
    ParseOne(sf, M_EP_TC_1, M_EP_TF_1, PackedOutputCircuitInfoInfo)

GetPackedSinglePointWithSCD(sf) ==
    LET Record(u, infoObjAddr) ==
          LET scd == Checked(u, 4, DecodeStatusAndStatusChangeDetection(u))
              qds == Checked(scd.u, 1, DecodeByte(scd.u))
          IN IF scd.panic # ErrNil THEN scd
             ELSE IF qds.panic # ErrNil THEN qds
             ELSE Read(PackedSinglePointWithSCDInfo(infoObjAddr, scd.v, qds.v), qds.u)
    IN ParseEach(sf, Record)

-----------------------------------------------------------------------------
(* The ASDUs a parser is given: the one the build routine handed to Send,  *)
(* or, before any call, one received from the remote station.              *)

\* the payload of a received ASDU: n bytes of a fixed pattern
Pattern(n) == [k \in 1..n |-> (k * 73 + 11) % 256]

\* the bytes of one object of a type, as its builder and parser lay it out
WireSize ==
    (M_SP_NA_1 :> 1) @@ (M_SP_TA_1 :> 4) @@ (M_SP_TB_1 :> 8) @@
    (M_DP_NA_1 :> 1) @@ (M_DP_TA_1 :> 4) @@ (M_DP_TB_1 :> 8) @@
    (M_ST_NA_1 :> 2) @@ (M_ST_TA_1 :> 5) @@ (M_ST_TB_1 :> 9) @@
    (M_BO_NA_1 :> 5) @@ (M_BO_TA_1 :> 8) @@ (M_BO_TB_1 :> 12) @@
    (M_ME_NA_1 :> 3) @@ (M_ME_TA_1 :> 6) @@ (M_ME_TD_1 :> 10) @@ (M_ME_ND_1 :> 2) @@
    (M_ME_NB_1 :> 3) @@ (M_ME_TB_1 :> 6) @@ (M_ME_TE_1 :> 10) @@
    (M_ME_NC_1 :> 5) @@ (M_ME_TC_1 :> 8) @@ (M_ME_TF_1 :> 12) @@
    (M_IT_NA_1 :> 5) @@ (M_IT_TA_1 :> 8) @@ (M_IT_TB_1 :> 12) @@
    (M_EP_TA_1 :> 6) @@ (M_EP_TD_1 :> 10) @@
    (M_EP_TB_1 :> 7) @@ (M_EP_TE_1 :> 11) @@ (M_EP_TC_1 :> 7) @@ (M_EP_TF_1 :> 11) @@
    (M_PS_NA_1 :> 5)

\* received ASDUs of the given types: either sequence mode, every address
\* width, up to MaxInfos + 1 objects, the payload complete or one byte short
Received(types) ==
    {[NewASDU(Params(2, 2, w), Identifier(t, VariableStruct(n, sq), CauseOfTransmission(FALSE, FALSE, Spontaneous), 0, 1))
        EXCEPT !.infoObj = Pattern((IF sq THEN w + n * WireSize[t] ELSE n * (w + WireSize[t])) - short)] :
        t \in types, w \in {1, 2, 3}, n \in 1..(MaxInfos + 1), sq \in BOOLEAN, short \in {0, 1}}

Inbound(types) == IF Idle THEN Received(types) ELSE {sent[i] : i \in 1..Len(sent)}

\* the parser fn, given the ASDU u, returned or panicked with r
Parsed(fn, u, r) ==
    /\ got' = [fn |-> fn, u |-> u, panic |-> r.panic, infos |-> r.info, reads |-> r.reads]
    /\ UNCHANGED <<call, ret, sent, result>>
    /\ UNCHANGED clogVars

NotParsed == got.fn = ""

DoGetSinglePoint ==
    /\ NotParsed
    /\ \E u \in Inbound({M_SP_NA_1, M_SP_TA_1, M_SP_TB_1, M_DP_NA_1}) :
         Parsed("GetSinglePoint", u, GetSinglePoint(u))

DoGetDoublePoint ==
    /\ NotParsed
    /\ \E u \in Inbound({M_DP_NA_1, M_DP_TA_1, M_DP_TB_1, M_SP_NA_1}) :
         Parsed("GetDoublePoint", u, GetDoublePoint(u))

DoGetStepPosition ==
    /\ NotParsed
    /\ \E u \in Inbound({M_ST_NA_1, M_ST_TA_1, M_ST_TB_1, M_SP_TB_1}) :
         Parsed("GetStepPosition", u, GetStepPosition(u))

DoGetBitString32 ==
    /\ NotParsed
    /\ \E u \in Inbound({M_BO_NA_1, M_BO_TA_1, M_BO_TB_1, M_SP_NA_1}) :
         Parsed("GetBitString32", u, GetBitString32(u))

DoGetMeasuredValueNormal ==
    /\ NotParsed
    /\ \E u \in Inbound({M_ME_NA_1, M_ME_TA_1, M_ME_TD_1, M_ME_ND_1, M_SP_NA_1}) :
         Parsed("GetMeasuredValueNormal", u, GetMeasuredValueNormal(u))

DoGetMeasuredValueScaled ==
    /\ NotParsed
    /\ \E u \in Inbound({M_ME_NB_1, M_ME_TB_1, M_ME_TE_1, M_SP_NA_1}) :
         Parsed("GetMeasuredValueScaled", u, GetMeasuredValueScaled(u))

DoGetMeasuredValueFloat ==
    /\ NotParsed
    /\ \E u \in Inbound({M_ME_NC_1, M_ME_TC_1, M_ME_TF_1, M_SP_NA_1}) :
         Parsed("GetMeasuredValueFloat", u, GetMeasuredValueFloat(u))

DoGetIntegratedTotals ==
    /\ NotParsed
    /\ \E u \in Inbound({M_IT_NA_1, M_IT_TA_1, M_IT_TB_1, M_SP_NA_1}) :
         Parsed("GetIntegratedTotals", u, GetIntegratedTotals(u))

DoGetEventOfProtectionEquipment ==
    /\ NotParsed
    /\ \E u \in Inbound({M_EP_TA_1, M_EP_TD_1, M_SP_NA_1}) :
         Parsed("GetEventOfProtectionEquipment", u, GetEventOfProtectionEquipment(u))

DoGetPackedStartEventsOfProtectionEquipment ==
    /\ NotParsed
    /\ \E u \in Inbound({M_EP_TB_1, M_EP_TE_1, M_SP_NA_1}) :
         Parsed("GetPackedStartEventsOfProtectionEquipment", u,
                GetPackedStartEventsOfProtectionEquipment(u))

DoGetPackedOutputCircuitInfo ==
    /\ NotParsed
    /\ \E u \in Inbound({M_EP_TC_1, M_EP_TF_1, M_SP_NA_1}) :
         Parsed("GetPackedOutputCircuitInfo", u, GetPackedOutputCircuitInfo(u))

DoGetPackedSinglePointWithSCD ==
    /\ NotParsed
    /\ \E u \in Inbound({M_PS_NA_1}) :
         Parsed("GetPackedSinglePointWithSCD", u, GetPackedSinglePointWithSCD(u))

-----------------------------------------------------------------------------
(* Calls of the codec functions of the identifier fields and of the        *)
(* information elements: a Value or Append call on arguments of its Go     *)
(* type, and a Parse or Decode call on what that call produced or, before  *)
(* any call, on received bytes.                                            *)

\* the function fn, applied to the arguments a, returned the error err and
\* the value v
Applied(fn, a, err, v) ==
    /\ call' = Call(fn, 0, a)
    /\ ret' = err
    /\ sent' = <<>>
    /\ got' = NoGot
    /\ result' = [fn |-> fn, returned |-> v]
    /\ UNCHANGED clogVars

\* the decoder fn, given in, returned or panicked with r
Decoded(fn, in, r) ==
    /\ got' = [fn |-> fn, u |-> in, panic |-> r.panic, infos |-> <<r.v>>, reads |-> 0]
    /\ UNCHANGED <<call, ret, sent, result>>
    /\ UNCHANGED clogVars

\* what a decoder is given: received values before any call, the value
\* returned by the encoder of its type after it
Given(encoder, received) ==
    IF Idle THEN received
    ELSE IF call.fn = encoder /\ ret = ErrNil THEN {result.returned}
    ELSE {}

\* every value of a byte
Bytes == 0..255

DoVariableStructValue ==
    /\ Idle
    /\ \E number \in Bytes, isSequence \in BOOLEAN :
         LET sf == VariableStruct(number, isSequence) IN
         Applied("VariableStruct.Value", [sf |-> sf], ErrNil, VariableStructValue(sf))

DoParseVariableStruct ==
    /\ NotParsed
    /\ \E b \in Given("VariableStruct.Value", Bytes) :
         Decoded("ParseVariableStruct", b, Read(ParseVariableStruct(b), b))

DoCauseOfTransmissionValue ==
    /\ Idle
    /\ \E cause \in Bytes, isNegative \in BOOLEAN, isTest \in BOOLEAN :
         LET sf == CauseOfTransmission(isTest, isNegative, cause) IN
         Applied("CauseOfTransmission.Value", [sf |-> sf], ErrNil, CauseOfTransmissionValue(sf))

DoParseCauseOfTransmission ==
    /\ NotParsed
    /\ \E b \in Given("CauseOfTransmission.Value", Bytes) :
         Decoded("ParseCauseOfTransmission", b, Read(ParseCauseOfTransmission(b), b))

\* step positions within and around <-64..63>
StepVals == (0 - 130)..130

DoStepPositionValue ==
    /\ Idle
    /\ \E v \in StepVals, hasTransient \in BOOLEAN :
         LET sf == StepPosition(v, hasTransient) IN
         Applied("StepPosition.Value", [sf |-> sf], ErrNil, StepPositionValue(sf))

DoParseStepPosition ==
    /\ NotParsed
    /\ \E b \in Given("StepPosition.Value", Bytes) :
         Decoded("ParseStepPosition", b, Read(ParseStepPosition(b), b))

\* addresses at the limits of the three widths
Addrs == {0, 1, 255, 256, 4660, 65535, 65536, 1193046, 16777215, 16777216}

\* an ASDU of address width w with the payload b
Payload(w, b) ==
    [NewASDU(Params(2, 2, w),
             Identifier(M_SP_NA_1, VariableStruct(1, FALSE),
                        CauseOfTransmission(FALSE, FALSE, Spontaneous), 0, 1))
       EXCEPT !.infoObj = b]

DoAppendInfoObjAddr ==
    /\ Idle
    /\ \E w \in 0..4, addr \in Addrs, b \in {<<>>, <<7, 9>>} :
         LET u == Payload(w, b)
             r == AppendInfoObjAddr(u, addr)
         IN Applied("AppendInfoObjAddr", [u |-> u, addr |-> addr], r.err, r.u)

\* the bytes a call of AppendInfoObjAddr appended, followed by one more byte
Appended ==
    [result.returned EXCEPT !.infoObj = Drop(@, Len(call.args.u.infoObj)) \o <<170>>]

\* DecodeInfoObjAddr returns the address and leaves the cursor behind it;
\* it panics with ErrParam for a width out of range and with a runtime
\* error on a payload shorter than the width
DoDecodeInfoObjAddr ==
    /\ NotParsed
    /\ \E u \in (IF Idle THEN {Payload(w, Pattern(n)) : w \in 0..4, n \in 0..4}
                 ELSE IF call.fn = "AppendInfoObjAddr" /\ ret = ErrNil THEN {Appended}
                 ELSE {}) :
         LET size == u.Params.InfoObjAddrSize
             d == DecodeInfoObjAddr(u)
         IN Decoded("DecodeInfoObjAddr", u,
                    IF size \notin {1, 2, 3} THEN Panic(ErrParam, u)
                    ELSE IF ~Has(u, size) THEN Panic(ErrIndexOutOfRange, u)
                    ELSE Read([Ioa |-> d.v, infoObj |-> d.u.infoObj], d.u))

-----------------------------------------------------------------------------
(* Application protocol control information, package cs104.                *)
(*   | start | APDU length | control field (4) | ASDU |                    *)

\* start character
startFrame == 104

\* control field(4)
APCICtlFiledSize == 4

\* start(1) + length(1) + control field(4) + ASDU
APDUSizeMax == 255

\* control field(4) + ASDU
APDUFieldSizeMax == APCICtlFiledSize + ASDUSizeMax

\* U frame control domain functions: 4 << iota
uStartDtActive == 4
uStartDtConfirm == 8
uStopDtActive == 16
uStopDtConfirm == 32
uTestFrActive == 64
uTestFrConfirm == 128

\* the frame types parse returns
iAPCI(sendSN, rcvSN) == [frame |-> "iAPCI", sendSN |-> sendSN, rcvSN |-> rcvSN]

sAPCI(rcvSN) == [frame |-> "sAPCI", rcvSN |-> rcvSN]

uAPCI(function) == [frame |-> "uAPCI", function |-> function]

\* fmt.Errorf("ASDU filed large than max %d", asdu.ASDUSizeMax)
ErrASDUFiledLarge == "ASDU filed large than max 249"

\* newIFrame that writes the sequence numbers without the shift by one bit
newIFrameUnshifted(sendSN, RcvSN, asdus) ==
    IF Len(asdus) > ASDUSizeMax THEN [err |-> ErrASDUFiledLarge, b |-> <<>>]
    ELSE [err |-> ErrNil,
          b |-> <<startFrame, Byte(Len(asdus) + 4),
                  Byte(sendSN), Byte(sendSN \div 256),
                  Byte(RcvSN), Byte(RcvSN \div 256)>> \o asdus]

\* newIFrame without the test of the ASDU's length
newIFrameAnyLength(sendSN, RcvSN, asdus) ==
    [err |-> ErrNil,
     b |-> <<startFrame, Byte(Len(asdus) + 4),
             Byte((sendSN * 2) % 65536), Byte(sendSN \div 128),
             Byte((RcvSN * 2) % 65536), Byte(RcvSN \div 128)>> \o asdus]

\* newIFrame creates an I frame and returns the apdu, or an error and nil;
\* byte(sn << 1) and byte(sn >> 7) of a uint16
newIFrame(sendSN, RcvSN, asdus) ==
    IF Len(asdus) > ASDUSizeMax THEN [err |-> ErrASDUFiledLarge, b |-> <<>>]
    ELSE [err |-> ErrNil,
          b |-> <<startFrame, Byte(Len(asdus) + 4),
                  Byte((sendSN * 2) % 65536), Byte(sendSN \div 128),
                  Byte((RcvSN * 2) % 65536), Byte(RcvSN \div 128)>> \o asdus]

\* newSFrame creates an S frame
newSFrame(RcvSN) ==
    <<startFrame, 4, 1, 0, Byte((RcvSN * 2) % 65536), Byte(RcvSN \div 128)>>

\* newUFrame without the two low bits of the control field
newUFrameBare(which) == <<startFrame, 4, which, 0, 0, 0>>

\* newUFrame creates a U frame
newUFrame(which) == <<startFrame, 4, BitOr(which, 3), 0, 0, 0>>

\* APCI{start, apduFiledLen, ctr1, ctr2, ctr3, ctr4}
APCI(apdu) ==
    [start |-> apdu[1], apduFiledLen |-> apdu[2],
     ctr1 |-> apdu[3], ctr2 |-> apdu[4], ctr3 |-> apdu[5], ctr4 |-> apdu[6]]

\* parse returns the frame type and the remaining data; apdu[5] of a
\* shorter slice is a runtime error
parse(apdu) ==
    IF Len(apdu) < 6 THEN Panic(ErrIndexOutOfRange, apdu)
    ELSE LET apci == APCI(apdu)
             sendSN == ((apci.ctr1 \div 2) + ((apci.ctr2 * 128) % 65536)) % 65536
             rcvSN == ((apci.ctr3 \div 2) + ((apci.ctr4 * 128) % 65536)) % 65536
             rest == Drop(apdu, 6)
         IN IF BitAnd(apci.ctr1, 1) = 0
            THEN Read([apci |-> iAPCI(sendSN, rcvSN), asdu |-> rest], apdu)
            ELSE IF BitAnd(apci.ctr1, 3) = 1
            THEN Read([apci |-> sAPCI(rcvSN), asdu |-> rest], apdu)
            ELSE Read([apci |-> uAPCI(BitAnd(apci.ctr1, 252)), asdu |-> rest], apdu)

\* sequence numbers around the 7-bit, 15-bit and 16-bit limits
SNs == {0, 1, 127, 128, 255, 256, 21845, 32767, 32768, 32769, 65535}

\* ASDU lengths around ASDUSizeMax
ASDULens == {0, 1, 2, 248, 249, 250, 251}

DoNewIFrame ==
    /\ Idle
    /\ \E sendSN \in SNs, RcvSN \in SNs, n \in ASDULens :
         LET r == newIFrame(sendSN, RcvSN, Pattern(n)) IN
         Applied("newIFrame", [sendSN |-> sendSN, RcvSN |-> RcvSN, asdus |-> Pattern(n)],
                 r.err, r.b)

DoNewSFrame ==
    /\ Idle
    /\ \E RcvSN \in SNs :
         Applied("newSFrame", [RcvSN |-> RcvSN], ErrNil, newSFrame(RcvSN))

DoNewUFrame ==
    /\ Idle
    /\ \E which \in Bytes :
         Applied("newUFrame", [which |-> which], ErrNil, newUFrame(which))

\* APDUs as they may be received: any start byte, length octet and control
\* field, with and without an ASDU, and slices shorter than the APCI
ReceivedAPDUs ==
    {<<start, len, ctr1, ctr2, ctr3, ctr4>> \o Pattern(n) :
        start \in {startFrame, 0}, len \in {3, 4, 6, 254},
        ctr1 \in {0, 1, 2, 3, 7, 11, 15, 19, 67, 131, 255},
        ctr2 \in {0, 255}, ctr3 \in {0, 254}, ctr4 \in {0, 255}, n \in {0, 2}}
    \cup {SubSeq(newUFrame(uTestFrActive), 1, n) : n \in 0..5}

\* the frames the constructors return
Constructors == {"newIFrame", "newSFrame", "newUFrame"}

DoParse ==
    /\ NotParsed
    /\ \E apdu \in (IF Idle THEN ReceivedAPDUs
                    ELSE IF call.fn \in Constructors /\ ret = ErrNil THEN {result.returned}
                    ELSE {}) :
         Decoded("parse", apdu, parse(apdu))

-----------------------------------------------------------------------------
(* Configuration of an IEC 60870-5-104 connection, package cs104           *)
(* (cs101/ft.go).  A time.Duration is counted in milliseconds.             *)

\* time.Second in milliseconds
Second == 1000
Hour == 3600 * Second

\* "t0" range [1, 255]s default 30s
ConnectTimeout0Min == 1 * Second
ConnectTimeout0Max == 255 * Second

\* "t1" range [1, 255]s default 15s
SendUnAckTimeout1Min == 1 * Second
SendUnAckTimeout1Max == 255 * Second

\* "t2" range [1, 255]s default 10s
RecvUnAckTimeout2Min == 1 * Second
RecvUnAckTimeout2Max == 255 * Second

\* "t3" range [1 second, 48 hours] default 20 s
IdleTimeout3Min == 1 * Second
IdleTimeout3Max == 48 * Hour

\* "k" range [1, 32767] default 12
SendUnAckLimitKMin == 1
SendUnAckLimitKMax == 32767

\* "w" range [1, 32767] default 8
RecvUnAckLimitWMin == 1
RecvUnAckLimitWMax == 32767

\* Config, its fields in the order of the struct
Config(t0, k, t1, w, t2, t3) ==
    [ConnectTimeout0 |-> t0, SendUnAckLimitK |-> k, SendUnAckTimeout1 |-> t1,
     RecvUnAckLimitW |-> w, RecvUnAckTimeout2 |-> t2, IdleTimeout3 |-> t3]

DefaultConfig ==
    Config(30 * Second, 12, 15 * Second, 8, 10 * Second, 20 * Second)

\* the errors of Valid
ErrInvalidPointer == "invalid pointer"
ErrConnectTimeout0 == "ConnectTimeout0 t0 not in [1, 255]s"
ErrSendUnAckLimitK == "SendUnAckLimitK k not in [1, 32767]"
ErrSendUnAckTimeout1 == "SendUnAckTimeout1 t1 not in [1, 255]s"
ErrRecvUnAckLimitW == "RecvUnAckLimitW w not in [1, 32767]"
ErrRecvUnAckTimeout2 == "RecvUnAckTimeout2 t2 not in [1, 255]s"
ErrIdleTimeout3 == "IdleTimeout3 t3 not in [1 second, 48 hours]"

\* a *Config: nil, or pointing to the Config v
Pointer(isNil, v) == [isNil |-> isNil, v |-> v]

\* Valid with every default applied before the first range test
ConfigValidDefaultsFirst(sf) ==
    LET d == [f \in DOMAIN sf.v |-> IF sf.v[f] = 0 THEN DefaultConfig[f] ELSE sf.v[f]]
        Out(f, min, max) == d[f] < min \/ d[f] > max
    IN IF sf.isNil THEN [err |-> ErrInvalidPointer, v |-> sf.v]
       ELSE IF Out("ConnectTimeout0", ConnectTimeout0Min, ConnectTimeout0Max)
       THEN [err |-> ErrConnectTimeout0, v |-> d]
       ELSE IF Out("SendUnAckLimitK", SendUnAckLimitKMin, SendUnAckLimitKMax)
       THEN [err |-> ErrSendUnAckLimitK, v |-> d]
       ELSE IF Out("SendUnAckTimeout1", SendUnAckTimeout1Min, SendUnAckTimeout1Max)
       THEN [err |-> ErrSendUnAckTimeout1, v |-> d]
       ELSE IF Out("RecvUnAckLimitW", RecvUnAckLimitWMin, RecvUnAckLimitWMax)
       THEN [err |-> ErrRecvUnAckLimitW, v |-> d]
       ELSE IF Out("RecvUnAckTimeout2", RecvUnAckTimeout2Min, RecvUnAckTimeout2Max)
       THEN [err |-> ErrRecvUnAckTimeout2, v |-> d]
       ELSE IF Out("IdleTimeout3", IdleTimeout3Min, IdleTimeout3Max)
       THEN [err |-> ErrIdleTimeout3, v |-> d]
       ELSE [err |-> ErrNil, v |-> d]

\* Valid applies the default for each unspecified value: field after field,
\* a zero is replaced by the default and any other value outside the range
\* returns the error of the field, the fields behind it left as they are.
\* v is the Config the receiver points to when Valid returns.
ConfigValid(sf) ==
    LET Out(c, f, min, max) == c[f] # 0 /\ (c[f] < min \/ c[f] > max)
        Set(c, f, default) == IF c[f] = 0 THEN [c EXCEPT ![f] = default] ELSE c
        c0 == sf.v
        c1 == Set(c0, "ConnectTimeout0", 30 * Second)
        c2 == Set(c1, "SendUnAckLimitK", 12)
        c3 == Set(c2, "SendUnAckTimeout1", 15 * Second)
        c4 == Set(c3, "RecvUnAckLimitW", 8)
        c5 == Set(c4, "RecvUnAckTimeout2", 10 * Second)
        c6 == Set(c5, "IdleTimeout3", 20 * Second)
    IN IF sf.isNil THEN [err |-> ErrInvalidPointer, v |-> c0]
       ELSE IF Out(c0, "ConnectTimeout0", ConnectTimeout0Min, ConnectTimeout0Max)
       THEN [err |-> ErrConnectTimeout0, v |-> c0]
       ELSE IF Out(c1, "SendUnAckLimitK", SendUnAckLimitKMin, SendUnAckLimitKMax)
       THEN [err |-> ErrSendUnAckLimitK, v |-> c1]
       ELSE IF Out(c2, "SendUnAckTimeout1", SendUnAckTimeout1Min, SendUnAckTimeout1Max)
       THEN [err |-> ErrSendUnAckTimeout1, v |-> c2]
       ELSE IF Out(c3, "RecvUnAckLimitW", RecvUnAckLimitWMin, RecvUnAckLimitWMax)
       THEN [err |-> ErrRecvUnAckLimitW, v |-> c3]
       ELSE IF Out(c4, "RecvUnAckTimeout2", RecvUnAckTimeout2Min, RecvUnAckTimeout2Max)
       THEN [err |-> ErrRecvUnAckTimeout2, v |-> c4]
       ELSE IF Out(c5, "IdleTimeout3", IdleTimeout3Min, IdleTimeout3Max)
       THEN [err |-> ErrIdleTimeout3, v |-> c5]
       ELSE [err |-> ErrNil, v |-> c6]

\* durations unset, negative, below a second and at the limits of [1, 255]s
Timeouts == {0, 0 - Second, 999, 1 * Second, 255 * Second,
             255 * Second + 1}

\* fewer values for the timeouts in the middle of the struct
FewTimeouts == {0, 500, 15 * Second, 256 * Second}

\* durations at the limits of [1 second, 48 hours]
IdleTimeouts == {0, 999, 1 * Second, 48 * Hour, 48 * Hour + 1}

\* values of a uint16 at the limits of [1, 32767]
Limits == {0, 1, 32767, 32768, 65535}

DoConfigValid ==
    /\ Idle
    /\ \E sf \in {Pointer(FALSE, Config(t0, k, t1, w, t2, t3)) :
                     t0 \in Timeouts, k \in Limits, t1 \in FewTimeouts, w \in Limits,
                     t2 \in FewTimeouts, t3 \in IdleTimeouts}
                 \cup {Pointer(FALSE, DefaultConfig), Pointer(TRUE, Config(0, 0, 0, 0, 0, 0))} :
         LET r == ConfigValid(sf) IN
         Applied("Config.Valid", [sf |-> sf], r.err, r.v)

-----------------------------------------------------------------------------
(* Calls of GetInfoObjSize on every value of a type identification.       *)

DoGetInfoObjSize ==
    /\ Idle
    /\ \E id \in Bytes :
         LET r == GetInfoObjSize(id) IN
         Applied("GetInfoObjSize", [id |-> id], r.err, r.size)

-----------------------------------------------------------------------------
(* Calls of the methods of a Clog made by NewLogger, in any order.         *)

\* the number of calls made on the logger
MaxLogCalls == 5

\* the providers handed to SetLogProvider
Providers == {"nil", "provider"}

\* the method fn was called on logger with the argument arg ("": none)
Logged(fn, arg) ==
    /\ Len(logCalls) < MaxLogCalls
    /\ logCalls' = Append(logCalls, [fn |-> fn, arg |-> arg])
    /\ UNCHANGED asduVars

DoLogMode ==
    \E enable \in BOOLEAN :
        /\ Logged("LogMode", IF enable THEN "true" ELSE "false")
        /\ logger' = LogMode(logger, enable)
        /\ UNCHANGED forwarded

DoSetLogProvider ==
    \E p \in Providers :
        /\ Logged("SetLogProvider", p)
        /\ logger' = SetLogProvider(logger, p)
        /\ UNCHANGED forwarded

DoCritical ==
    /\ Logged("Critical", "")
    /\ forwarded' = Critical(logger, forwarded)
    /\ UNCHANGED logger

DoError ==
    /\ Logged("Error", "")
    /\ forwarded' = Error(logger, forwarded)
    /\ UNCHANGED logger

DoWarn ==
    /\ Logged("Warn", "")
    /\ forwarded' = Warn(logger, forwarded)
    /\ UNCHANGED logger

DoDebug ==
    /\ Logged("Debug", "")
    /\ forwarded' = Debug(logger, forwarded)
    /\ UNCHANGED logger

-----------------------------------------------------------------------------
Next ==
    \/ Single \/ SingleCP24Time2a \/ SingleCP56Time2a
    \/ Double \/ DoubleCP24Time2a \/ DoubleCP56Time2a
    \/ Step \/ StepCP24Time2a \/ StepCP56Time2a
    \/ BitString32 \/ BitString32CP24Time2a \/ BitString32CP56Time2a
    \/ MeasuredValueNormal \/ MeasuredValueNormalCP24Time2a \/ MeasuredValueNormalCP56Time2a
    \/ MeasuredValueNormalNoQuality
    \/ MeasuredValueScaled \/ MeasuredValueScaledCP24Time2a \/ MeasuredValueScaledCP56Time2a
    \/ MeasuredValueFloat \/ MeasuredValueFloatCP24Time2a \/ MeasuredValueFloatCP56Time2a
    \/ IntegratedTotals \/ IntegratedTotalsCP24Time2a \/ IntegratedTotalsCP56Time2a
    \/ EventOfProtectionEquipmentCP24Time2a \/ EventOfProtectionEquipmentCP56Time2a
    \/ PackedStartEventsOfProtectionEquipmentCP24Time2a
    \/ PackedStartEventsOfProtectionEquipmentCP56Time2a
    \/ PackedOutputCircuitInfoCP24Time2a \/ PackedOutputCircuitInfoCP56Time2a
    \/ PackedSinglePointWithSCD
    \/ SingleCmd \/ DoubleCmd \/ StepCmd
    \/ SetpointCmdNormal \/ SetpointCmdScaled \/ SetpointCmdFloat \/ BitsString32Cmd
    \/ InterrogationCmd \/ CounterInterrogationCmd \/ ReadCmd \/ ClockSynchronizationCmd
    \/ TestCommand \/ ResetProcessCmd \/ DelayAcquireCommand \/ TestCommandCP56Time2a
    \/ ParameterNormal \/ ParameterScaled \/ ParameterFloat \/ ParameterActivation
    \/ EndOfInitialization
    \/ DoGetSinglePoint \/ DoGetDoublePoint \/ DoGetStepPosition
    \/ DoGetBitString32 \/ DoGetMeasuredValueNormal \/ DoGetMeasuredValueScaled
    \/ DoGetMeasuredValueFloat \/ DoGetIntegratedTotals \/ DoGetEventOfProtectionEquipment
    \/ DoGetPackedStartEventsOfProtectionEquipment \/ DoGetPackedOutputCircuitInfo
    \/ DoGetPackedSinglePointWithSCD
    \/ DoVariableStructValue \/ DoParseVariableStruct
    \/ DoCauseOfTransmissionValue \/ DoParseCauseOfTransmission
    \/ DoStepPositionValue \/ DoParseStepPosition
    \/ DoAppendInfoObjAddr \/ DoDecodeInfoObjAddr
    \/ DoNewIFrame \/ DoNewSFrame \/ DoNewUFrame \/ DoParse
    \/ DoConfigValid
    \/ DoGetInfoObjSize

Spec == Init /\ [][Next]_vars

\* the calls on a Clog
NextClog ==
    \/ DoLogMode \/ DoSetLogProvider
    \/ DoCritical \/ DoError \/ DoWarn \/ DoDebug

SpecClog == Init /\ [][NextClog]_vars

-----------------------------------------------------------------------------
(* The routines by family, as the claims speak of them.                    *)

PlainBuilders == {"Single", "Double", "Step", "BitString32", "PackedSinglePointWithSCD"}

MeasuredBuilders ==
    {"MeasuredValueNormal", "MeasuredValueNormalNoQuality", "MeasuredValueScaled",
     "MeasuredValueFloat"}

CP24Builders ==
    {"SingleCP24Time2a", "DoubleCP24Time2a", "StepCP24Time2a", "BitString32CP24Time2a",
     "MeasuredValueNormalCP24Time2a", "MeasuredValueScaledCP24Time2a",
     "MeasuredValueFloatCP24Time2a"}

CP56Builders ==
    {"SingleCP56Time2a", "DoubleCP56Time2a", "StepCP56Time2a", "BitString32CP56Time2a",
     "MeasuredValueNormalCP56Time2a", "MeasuredValueScaledCP56Time2a",
     "MeasuredValueFloatCP56Time2a"}

TotalsBuilders == {"IntegratedTotals", "IntegratedTotalsCP24Time2a", "IntegratedTotalsCP56Time2a"}

EventBuilders ==
    {"EventOfProtectionEquipmentCP24Time2a", "EventOfProtectionEquipmentCP56Time2a"}

\* the builders of one packed protection object
PackedBuilders ==
    {"PackedStartEventsOfProtectionEquipmentCP24Time2a",
     "PackedStartEventsOfProtectionEquipmentCP56Time2a",
     "PackedOutputCircuitInfoCP24Time2a", "PackedOutputCircuitInfoCP56Time2a"}

\* the monitoring builders that take a list of records
ListBuilders ==
    PlainBuilders \cup MeasuredBuilders \cup CP24Builders \cup CP56Builders
    \cup TotalsBuilders \cup EventBuilders

MonitoringBuilders == ListBuilders \cup PackedBuilders

CommandBuilders ==
    {"SingleCmd", "DoubleCmd", "StepCmd", "SetpointCmdNormal", "SetpointCmdScaled",
     "SetpointCmdFloat", "BitsString32Cmd"}

ParameterBuilders == {"ParameterNormal", "ParameterScaled", "ParameterFloat"}

InterrogatedCauses == InterrogatedByStation..InterrogatedByGroup16

CounterCauses == RequestByGeneralCounter..RequestByGroup4Counter

\* the causes admitted for the type a routine builds: the table of admitted
\* causes of the specification, and the routine's comment for the commands
\* the table leaves out
AdmittedCauses(fn) ==
    CASE fn \in PlainBuilders ->
           {Background, Spontaneous, Request, ReturnInfoRemote, ReturnInfoLocal}
           \cup InterrogatedCauses
      [] fn \in MeasuredBuilders ->
           {Periodic, Background, Spontaneous, Request, ReturnInfoRemote, ReturnInfoLocal}
           \cup InterrogatedCauses
      [] fn \in CP24Builders \cup CP56Builders ->
           {Spontaneous, Request, ReturnInfoRemote, ReturnInfoLocal}
      [] fn \in TotalsBuilders -> {Spontaneous} \cup CounterCauses
      [] fn \in EventBuilders \cup PackedBuilders -> {Spontaneous}
      [] fn \in CommandBuilders \cup {"InterrogationCmd", "ParameterActivation"} ->
           {Activation, Deactivation}
      [] fn \in ParameterBuilders \cup {"TestCommandCP56Time2a"} -> {Activation}
      [] fn = "DelayAcquireCommand" -> {Spontaneous, Activation}
      [] OTHER -> Causes

\* the routines that send the cause they are given
CauseKeepingBuilders ==
    MonitoringBuilders \cup CommandBuilders \cup ParameterBuilders
    \cup {"InterrogationCmd", "ParameterActivation", "TestCommandCP56Time2a",
          "DelayAcquireCommand"}

\* C1: a build routine that does not force the cause (monitoring, control,
\* parameter and system builders, TestCommandCP56Time2a among them), called
\* with a cause outside the set admitted for its type, returns ErrCmdCause
\* and does not call Send.
C1_CauseOutsideAdmittedIsRejected ==
    (call.fn \in CauseKeepingBuilders /\ call.args.coa.Cause \notin AdmittedCauses(call.fn))
    => (ret = ErrCmdCause /\ sent = <<>>)

\* C2: every ASDU a monitoring builder hands to Send has payload length +
\* IdentifierSize <= 249, and the object size checkValid computes with is no
\* smaller than the bytes appended per object, so the payload is no longer
\* than the length checkValid tested.
C2_SentWithinSizeMax ==
    call.fn \in MonitoringBuilders =>
      \A i \in 1..Len(sent) :
        LET u == sent[i]
            w == u.Params.InfoObjAddrSize
            objSize == GetInfoObjSize(u.Type).size
            n == Len(call.args.infos)
        IN /\ Len(u.infoObj) + IdentifierSize(u.Params) <= ASDUSizeMax
           /\ Len(u.infoObj) <= (IF u.Variable.IsSequence THEN w + n * objSize
                                 ELSE n * (w + objSize))

\* the Get* parser of the type a monitoring builder is for
ParserOf(fn) ==
    CASE fn \in {"Single", "SingleCP24Time2a", "SingleCP56Time2a"} -> "GetSinglePoint"
      [] fn \in {"Double", "DoubleCP24Time2a", "DoubleCP56Time2a"} -> "GetDoublePoint"
      [] fn \in {"Step", "StepCP24Time2a", "StepCP56Time2a"} -> "GetStepPosition"
      [] fn \in {"BitString32", "BitString32CP24Time2a", "BitString32CP56Time2a"} ->
           "GetBitString32"
      [] fn \in {"MeasuredValueNormal", "MeasuredValueNormalCP24Time2a",
                 "MeasuredValueNormalCP56Time2a", "MeasuredValueNormalNoQuality"} ->
           "GetMeasuredValueNormal"
      [] fn \in {"MeasuredValueScaled", "MeasuredValueScaledCP24Time2a",
                 "MeasuredValueScaledCP56Time2a"} -> "GetMeasuredValueScaled"
      [] fn \in {"MeasuredValueFloat", "MeasuredValueFloatCP24Time2a",
                 "MeasuredValueFloatCP56Time2a"} -> "GetMeasuredValueFloat"
      [] fn \in TotalsBuilders -> "GetIntegratedTotals"
      [] fn \in EventBuilders -> "GetEventOfProtectionEquipment"
      [] fn \in {"PackedStartEventsOfProtectionEquipmentCP24Time2a",
                 "PackedStartEventsOfProtectionEquipmentCP56Time2a"} ->
           "GetPackedStartEventsOfProtectionEquipment"
      [] fn \in {"PackedOutputCircuitInfoCP24Time2a", "PackedOutputCircuitInfoCP56Time2a"} ->
           "GetPackedOutputCircuitInfo"
      [] fn = "PackedSinglePointWithSCD" -> "GetPackedSinglePointWithSCD"
      [] OTHER -> "none"

\* the time tag of the type a monitoring builder is for
TimeTagOf(fn) ==
    CASE fn \in CP24Builders
              \cup {"IntegratedTotalsCP24Time2a", "EventOfProtectionEquipmentCP24Time2a",
                    "PackedStartEventsOfProtectionEquipmentCP24Time2a",
                    "PackedOutputCircuitInfoCP24Time2a"} -> "CP24Time2a"
      [] fn \in CP56Builders
              \cup {"IntegratedTotalsCP56Time2a", "EventOfProtectionEquipmentCP56Time2a",
                    "PackedStartEventsOfProtectionEquipmentCP56Time2a",
                    "PackedOutputCircuitInfoCP56Time2a"} -> "CP56Time2a"
      [] OTHER -> "none"

\* a time at the resolution its tag encodes: minute and millisecond for
\* CP24, the whole time for CP56, nothing without a tag
AtResolution(tag, t) ==
    CASE tag = "CP24Time2a" -> Time(1, 1, 1, 0, t.Min, t.Msec)
      [] tag = "CP56Time2a" -> t
      [] OTHER -> ZeroTime

\* the flags a quality descriptor of the routine's type defines: IV NT SB BL
\* (and OV or EI where the type has it); M_ME_ND_1 has no descriptor
QualityFlags(fn) ==
    CASE fn \in {"Single", "SingleCP24Time2a", "SingleCP56Time2a",
                 "Double", "DoubleCP24Time2a", "DoubleCP56Time2a"} -> 240
      [] fn \in EventBuilders \cup PackedBuilders -> 248
      [] fn = "MeasuredValueNormalNoQuality" -> 0
      [] OTHER -> 241

QualityOf(fn, r) ==
    CASE fn \in EventBuilders \cup PackedBuilders -> r.Qdp
      [] fn \in TotalsBuilders \cup {"MeasuredValueNormalNoQuality"} -> 0
      [] OTHER -> r.Qds

\* the part of a record its type carries: the record with its time at the
\* tag's resolution, and without the quality M_ME_ND_1 does not carry
Carried(fn, r) ==
    IF fn = "PackedSinglePointWithSCD" THEN r
    ELSE IF fn = "MeasuredValueNormalNoQuality"
    THEN [r EXCEPT !.Qds = 0, !.Time = ZeroTime]
    ELSE [r EXCEPT !.Time = AtResolution(TimeTagOf(fn), @)]

\* the payload of the call is admitted for its type: quality descriptors
\* with defined flags only, consecutive addresses in sequence mode
AdmittedPayload ==
    LET infos == call.args.infos IN
    /\ \A i \in 1..Len(infos) :
         BitAnd(QualityOf(call.fn, infos[i]), 255 - QualityFlags(call.fn)) = 0
    /\ call.args.isSequence =>
         \A i \in 1..Len(infos) : infos[i].Ioa = infos[1].Ioa + i - 1

\* the parser of the builder's type was given the ASDU the builder sent
ParsedBack ==
    /\ call.fn \in MonitoringBuilders
    /\ sent # <<>>
    /\ got.fn = ParserOf(call.fn)

\* C3: for every type with a builder and a Get* parser and every payload
\* admitted for it, parsing what the builder sent returns the records of the
\* payload, equal in address, value and quality, the time at the resolution
\* of the tag.
C3_ParseOfBuildIsPayload ==
    (ParsedBack /\ AdmittedPayload) =>
      /\ got.panic = ErrNil
      /\ Len(got.infos) = Len(call.args.infos)
      /\ \A i \in 1..Len(got.infos) :
           Carried(call.fn, got.infos[i]) = Carried(call.fn, call.args.infos[i])

\* the causes a monitoring routine lets pass, as its comment lists them
AcceptedCauses(fn) ==
    CASE fn \in {"Single", "Double", "Step", "PackedSinglePointWithSCD"} ->
           {Background, Spontaneous, Request, ReturnInfoRemote, ReturnInfoLocal}
           \cup InterrogatedCauses
      [] fn = "BitString32" -> {Background, Spontaneous, Request} \cup InterrogatedCauses
      [] fn \in MeasuredBuilders ->
           {Periodic, Background, Spontaneous, Request} \cup InterrogatedCauses
      [] fn \in {"SingleCP24Time2a", "SingleCP56Time2a", "DoubleCP24Time2a",
                 "DoubleCP56Time2a", "StepCP24Time2a", "StepCP56Time2a"} ->
           {Spontaneous, Request, ReturnInfoRemote, ReturnInfoLocal}
      [] fn \in CP24Builders \cup CP56Builders -> {Spontaneous, Request}
      [] fn \in TotalsBuilders -> {Spontaneous} \cup CounterCauses
      [] fn \in EventBuilders \cup PackedBuilders -> {Spontaneous}
      [] OTHER -> Causes

\* a list builder was called without a record
ZeroRecords == call.fn \in ListBuilders /\ call.args.infos = <<>>

\* C4, as stated: a monitoring builder called with zero records returns
\* ErrNotAnyObjInfo whatever its other arguments, the cause included, and
\* does not call Send.
C4_ZeroRecordsAnyCause ==
    ZeroRecords => (ret = ErrNotAnyObjInfo /\ sent = <<>>)

\* C4, amended: a monitoring builder called with zero records does not call
\* Send; it returns ErrNotAnyObjInfo when the cause is one the routine
\* accepts, whatever the Params, the sequence flag and the common address,
\* and ErrCmdCause when it is not, the cause being tested first.
C4_ZeroRecordsCauseFirst ==
    ZeroRecords =>
      /\ sent = <<>>
      /\ ret = (IF call.args.coa.Cause \in AcceptedCauses(call.fn)
                THEN ErrNotAnyObjInfo ELSE ErrCmdCause)

\* Single, called without a record and with a cause it does not accept,
\* returned ErrCmdCause
C4_Witness ==
    /\ ZeroRecords
    /\ call.fn = "Single"
    /\ call.args.coa.Cause = Activation
    /\ ret = ErrCmdCause
    /\ sent = <<>>

\* the little-endian bytes of an address at a width
AddrBytes(ioa, w) ==
    [k \in 1..w |-> IF k = 1 THEN ioa % 256
                    ELSE IF k = 2 THEN (ioa \div 256) % 256
                    ELSE (ioa \div 65536) % 256]

\* an ASDU without payload, to encode one element on
Blank ==
    NewASDU(DefaultParams,
            Identifier(0, VariableStruct(0, FALSE), CauseOfTransmission(FALSE, FALSE, 0), 0, 0))

\* the encoding of the object of a record, without its address: the
\* information elements of the type, then its time tag
ObjectBytes(fn, v) ==
    LET elements ==
          CASE ParserOf(fn) = "GetSinglePoint" ->
                 <<BitOr(IF v.Value THEN 1 ELSE 0, BitAnd(v.Qds, 240))>>
            [] ParserOf(fn) = "GetDoublePoint" ->
                 <<BitOr(BitAnd(v.Value, 3), BitAnd(v.Qds, 240))>>
            [] ParserOf(fn) = "GetStepPosition" ->
                 <<StepPositionValue(v.Value), Byte(v.Qds)>>
            [] ParserOf(fn) = "GetBitString32" ->
                 AppendBitsString32(Blank, v.Value).infoObj \o <<Byte(v.Qds)>>
            [] fn = "MeasuredValueNormalNoQuality" -> AppendNormalize(Blank, v.Value).infoObj
            [] ParserOf(fn) = "GetMeasuredValueNormal" ->
                 AppendNormalize(Blank, v.Value).infoObj \o <<Byte(v.Qds)>>
            [] ParserOf(fn) = "GetMeasuredValueScaled" ->
                 AppendScaled(Blank, v.Value).infoObj \o <<Byte(v.Qds)>>
            [] ParserOf(fn) = "GetMeasuredValueFloat" ->
                 AppendFloat32(Blank, v.Value).infoObj \o <<BitAnd(Byte(v.Qds), 241)>>
            [] ParserOf(fn) = "GetIntegratedTotals" ->
                 AppendBinaryCounterReading(Blank, v.Value).infoObj
            [] ParserOf(fn) = "GetEventOfProtectionEquipment" ->
                 <<BitOr(BitAnd(v.Event, 3), BitAnd(v.Qdp, 248))>>
                 \o AppendCP16Time2a(Blank, v.Msec).infoObj
            [] ParserOf(fn) = "GetPackedSinglePointWithSCD" ->
                 AppendStatusAndStatusChangeDetection(Blank, v.Scd).infoObj \o <<Byte(v.Qds)>>
        tag ==
          CASE TimeTagOf(fn) = "CP24Time2a" -> CP24Time2a(v.Time)
            [] TimeTagOf(fn) = "CP56Time2a" -> CP56Time2a(v.Time)
            [] OTHER -> <<>>
    IN elements \o tag

\* a list builder handed an ASDU to Send
ListSent == call.fn \in ListBuilders /\ sent # <<>>

\* C5: a list-taking monitoring builder given N >= 1 records sends, with
\* isSequence, the address of the first record in width little-endian bytes
\* and then the N objects in input order, IOAwidth + N*objSize bytes, and
\* without it N pairs of address and object in input order,
\* N*(IOAwidth + objSize) bytes; the VSQ has Number = N and the given flag.
C5_PayloadLayout ==
    ListSent =>
      LET u == sent[1]
          infos == call.args.infos
          N == Len(infos)
          seq == call.args.isSequence
          w == u.Params.InfoObjAddrSize
          objSize == Len(ObjectBytes(call.fn, infos[1]))
          At(from, len) == SubSeq(u.infoObj, from + 1, from + len)
      IN /\ N >= 1
         /\ Len(sent) = 1
         /\ u.Variable = VariableStruct(N, seq)
         /\ seq =>
              /\ Len(u.infoObj) = w + N * objSize
              /\ At(0, w) = AddrBytes(infos[1].Ioa, w)
              /\ \A i \in 1..N :
                   At(w + (i - 1) * objSize, objSize) = ObjectBytes(call.fn, infos[i])
         /\ ~seq =>
              /\ Len(u.infoObj) = N * (w + objSize)
              /\ \A i \in 1..N :
                   /\ At((i - 1) * (w + objSize), w) = AddrBytes(infos[i].Ioa, w)
                   /\ At((i - 1) * (w + objSize) + w, objSize) = ObjectBytes(call.fn, infos[i])

\* PackedSinglePointWithSCD sent a sequence of two records with one
\* address of three bytes and two objects of five bytes
C5_Witness ==
    /\ ListSent
    /\ call.fn = "PackedSinglePointWithSCD"
    /\ call.args.isSequence
    /\ Len(call.args.infos) = 2
    /\ call.args.infos[1].Ioa # call.args.infos[2].Ioa
    /\ sent[1].Variable = VariableStruct(2, TRUE)
    /\ Len(sent[1].infoObj) = 3 + 2 * 5

\* the parsers that return a list of records
ListParsers ==
    {"GetSinglePoint", "GetDoublePoint", "GetStepPosition", "GetBitString32",
     "GetMeasuredValueNormal", "GetMeasuredValueScaled", "GetMeasuredValueFloat",
     "GetIntegratedTotals", "GetEventOfProtectionEquipment", "GetPackedSinglePointWithSCD"}

\* the types a list parser has a case for; GetPackedSinglePointWithSCD
\* does not test the type
TypesOf(parser) ==
    CASE parser = "GetSinglePoint" -> {M_SP_NA_1, M_SP_TA_1, M_SP_TB_1}
      [] parser = "GetDoublePoint" -> {M_DP_NA_1, M_DP_TA_1, M_DP_TB_1}
      [] parser = "GetStepPosition" -> {M_ST_NA_1, M_ST_TA_1, M_ST_TB_1}
      [] parser = "GetBitString32" -> {M_BO_NA_1, M_BO_TA_1, M_BO_TB_1}
      [] parser = "GetMeasuredValueNormal" -> {M_ME_NA_1, M_ME_TA_1, M_ME_TD_1, M_ME_ND_1}
      [] parser = "GetMeasuredValueScaled" -> {M_ME_NB_1, M_ME_TB_1, M_ME_TE_1}
      [] parser = "GetMeasuredValueFloat" -> {M_ME_NC_1, M_ME_TC_1, M_ME_TF_1}
      [] parser = "GetIntegratedTotals" -> {M_IT_NA_1, M_IT_TA_1, M_IT_TB_1}
      [] parser = "GetEventOfProtectionEquipment" -> {M_EP_TA_1, M_EP_TD_1}
      [] OTHER -> TypeIDs

\* a list parser returned the records of an ASDU
ListParsed == got.fn \in ListParsers /\ got.panic = ErrNil

\* the address in the w bytes of a payload after the first from
AddrAt(payload, from, w) ==
    payload[from + 1]
    + (IF w >= 2 THEN 256 * payload[from + 2] ELSE 0)
    + (IF w >= 3 THEN 65536 * payload[from + 3] ELSE 0)

\* the bytes a list parser reads for one object of the ASDU it was given
ObjectRead ==
    IF got.fn = "GetPackedSinglePointWithSCD" THEN WireSize[M_PS_NA_1]
    ELSE WireSize[got.u.Type]

\* a list parser was given an ASDU of one of its types whose payload holds
\* the addresses and objects its VSQ announces
CompleteGiven ==
    /\ got.fn \in ListParsers
    /\ got.u.Type \in TypesOf(got.fn)
    /\ LET N == got.u.Variable.Number
           w == got.u.Params.InfoObjAddrSize
       IN /\ w \in {1, 2, 3}
          /\ Len(got.u.infoObj) >= (IF got.u.Variable.IsSequence THEN w + N * ObjectRead
                                    ELSE N * (w + ObjectRead))

\* C6: a list-returning Get* parser given a VSQ with IsSequence and
\* Number = N reads one address from the payload and returns N records, the
\* i-th (from 0) with the first address + i; with IsSequence clear it reads
\* one address per record and returns it as it is in the payload.
C6_AddressesOfParsedRecords ==
    /\ CompleteGiven => got.panic = ErrNil
    /\ ListParsed =>
         LET u == got.u
             N == u.Variable.Number
             w == u.Params.InfoObjAddrSize
         IN /\ Len(got.infos) = N
            /\ (u.Variable.IsSequence /\ N >= 1) =>
                 /\ got.reads = 1
                 /\ \A i \in 1..N : got.infos[i].Ioa = AddrAt(u.infoObj, 0, w) + (i - 1)
            /\ ~u.Variable.IsSequence =>
                 /\ got.reads = N
                 /\ \A i \in 1..N :
                      got.infos[i].Ioa = AddrAt(u.infoObj, (i - 1) * (w + ObjectRead), w)

\* GetPackedSinglePointWithSCD returned three records of a received
\* sequence, their addresses counted up from the one address it read
C6_Witness ==
    /\ ListParsed
    /\ CompleteGiven
    /\ got.fn = "GetPackedSinglePointWithSCD"
    /\ call.fn = ""
    /\ got.u.Variable = VariableStruct(3, TRUE)
    /\ got.u.Params.InfoObjAddrSize = 2
    /\ got.reads = 1
    /\ got.infos[3].Ioa = got.infos[1].Ioa + 2
    /\ got.infos[1].Ioa > 255

\* C7: Single and Double accept exactly Background, Spontaneous, Request,
\* ReturnInfoRemote, ReturnInfoLocal and InterrogatedByStation ..
\* InterrogatedByGroup16, their CP24 and CP56 variants exactly Spontaneous,
\* Request, ReturnInfoRemote and ReturnInfoLocal; every other cause of 0..63
\* gives ErrCmdCause, whatever IsTest and IsNegative are.
C7_SingleDoubleCauses ==
    /\ call.fn \in {"Single", "Double"} =>
         (ret = ErrCmdCause <=>
            call.args.coa.Cause \notin
              {Background, Spontaneous, Request, ReturnInfoRemote, ReturnInfoLocal}
              \cup (InterrogatedByStation..InterrogatedByGroup16))
    /\ call.fn \in {"SingleCP24Time2a", "SingleCP56Time2a",
                    "DoubleCP24Time2a", "DoubleCP56Time2a"} =>
         (ret = ErrCmdCause <=>
            call.args.coa.Cause \notin
              {Spontaneous, Request, ReturnInfoRemote, ReturnInfoLocal})

\* DoubleCP56Time2a sent a record with cause ReturnInfoLocal and both flags
\* set
C7_Witness ==
    /\ call.fn = "DoubleCP56Time2a"
    /\ call.args.coa = CauseOfTransmission(TRUE, TRUE, ReturnInfoLocal)
    /\ ret = ErrNil
    /\ Len(sent) = 1
    /\ sent[1].Coa = call.args.coa

\* the causes C8 lists for the measured values
C8Causes ==
    {Periodic, Background, Spontaneous, Request, ReturnInfoRemote, ReturnInfoLocal}
    \cup (InterrogatedByStation..InterrogatedByGroup16)

\* C8, as stated: MeasuredValueNormal, MeasuredValueNormalNoQuality,
\* MeasuredValueScaled and MeasuredValueFloat admit Background, Spontaneous,
\* Request, ReturnInfoRemote, ReturnInfoLocal, InterrogatedByStation ..
\* InterrogatedByGroup16 and Periodic: none of them gives ErrCmdCause.
C8_MeasuredCausesAsStated ==
    (call.fn \in MeasuredBuilders /\ call.args.coa.Cause \in C8Causes) => ret # ErrCmdCause

\* C8, amended: the four routines accept exactly Periodic, Background,
\* Spontaneous, Request and InterrogatedByStation .. InterrogatedByGroup16;
\* ReturnInfoRemote, ReturnInfoLocal and every other cause give ErrCmdCause
\* and nothing is sent.
C8_MeasuredCauses ==
    call.fn \in MeasuredBuilders =>
      /\ ret = ErrCmdCause <=>
           call.args.coa.Cause \notin
             {Periodic, Background, Spontaneous, Request}
             \cup (InterrogatedByStation..InterrogatedByGroup16)
      /\ ret = ErrCmdCause => sent = <<>>

\* MeasuredValueScaled, given a record and the cause ReturnInfoRemote,
\* returned ErrCmdCause
C8_Witness ==
    /\ call.fn = "MeasuredValueScaled"
    /\ call.args.coa.Cause = ReturnInfoRemote
    /\ Len(call.args.infos) = 1
    /\ ret = ErrCmdCause
    /\ sent = <<>>

\* the two TypeIDs of the family of a command routine
FamilyOf(fn) ==
    CASE fn = "SingleCmd" -> {C_SC_NA_1, C_SC_TA_1}
      [] fn = "DoubleCmd" -> {C_DC_NA_1, C_DC_TA_1}
      [] fn = "StepCmd" -> {C_RC_NA_1, C_RC_TA_1}
      [] fn = "SetpointCmdNormal" -> {C_SE_NA_1, C_SE_TA_1}
      [] fn = "SetpointCmdScaled" -> {C_SE_NB_1, C_SE_TB_1}
      [] fn = "SetpointCmdFloat" -> {C_SE_NC_1, C_SE_TC_1}
      [] fn = "BitsString32Cmd" -> {C_BO_NA_1, C_BO_TA_1}
      [] OTHER -> {}

\* a command routine was called with a cause it accepts
CommandCalled ==
    /\ call.fn \in CommandBuilders
    /\ call.args.coa.Cause \in {Activation, Deactivation}

\* an address fits the width w of a valid Params
Fits(ioa, w) ==
    ioa <= (CASE w = 1 -> 255 [] w = 2 -> 65535 [] OTHER -> 16777215)

\* every ASDU sent has the VSQ {IsSequence: false, Number: 1}
SentSingleObject == \A i \in 1..Len(sent) : sent[i].Variable = VariableStruct(1, FALSE)

\* C9, as stated: SingleCmd, DoubleCmd, StepCmd, SetpointCmdNormal,
\* SetpointCmdScaled, SetpointCmdFloat and BitsString32Cmd accept exactly
\* the causes Activation and Deactivation, always emit the VSQ {false, 1},
\* and accept only the two TypeIDs of their family: for any other TypeID
\* they return ErrTypeIDNotMatch without sending.
C9_CommandsAsStated ==
    call.fn \in CommandBuilders =>
      /\ ret = ErrCmdCause <=> call.args.coa.Cause \notin {Activation, Deactivation}
      /\ SentSingleObject
      /\ (CommandCalled /\ call.typeID \notin FamilyOf(call.fn)) =>
           (ret = ErrTypeIDNotMatch /\ sent = <<>>)

\* C9, amended: the seven routines accept exactly the causes Activation and
\* Deactivation (ErrCmdCause otherwise), send only the VSQ {false, 1} and
\* only under one of the two TypeIDs of their family; for any other TypeID
\* nothing is sent, and the error is ErrTypeIDNotMatch when the cause is
\* accepted, the Params are valid and the address fits its width, the tests
\* of which come first and return ErrCmdCause, ErrParam, ErrInfoObjAddrFit.
C9_Commands ==
    call.fn \in CommandBuilders =>
      LET p == call.args.c.params IN
      /\ ret = ErrCmdCause <=> call.args.coa.Cause \notin {Activation, Deactivation}
      /\ SentSingleObject
      /\ \A i \in 1..Len(sent) :
           sent[i].Type = call.typeID /\ call.typeID \in FamilyOf(call.fn)
      /\ call.typeID \notin FamilyOf(call.fn) =>
           /\ sent = <<>>
           /\ ret = (IF call.args.coa.Cause \notin {Activation, Deactivation} THEN ErrCmdCause
                     ELSE IF ParamsValid(p) # ErrNil THEN ErrParam
                     ELSE IF ~Fits(call.args.infos[1].Ioa, p.InfoObjAddrSize)
                     THEN ErrInfoObjAddrFit
                     ELSE ErrTypeIDNotMatch)

\* SetpointCmdFloat, called with an accepted cause under a TypeID of another
\* family and an address too large for the width, returned ErrInfoObjAddrFit
C9_Witness ==
    /\ CommandCalled
    /\ call.fn = "SetpointCmdFloat"
    /\ call.typeID = M_SP_NA_1
    /\ call.args.c.params = Params(2, 2, 2)
    /\ call.args.infos[1].Ioa = 65536
    /\ ret = ErrInfoObjAddrFit
    /\ sent = <<>>

\* the system commands C10 says force the cause
ForcingCommands ==
    {"CounterInterrogationCmd", "ReadCmd", "ClockSynchronizationCmd", "TestCommand",
     "ResetProcessCmd"}

\* the cause the protocol mandates for a system command
MandatedCause(fn) == IF fn = "ReadCmd" THEN Request ELSE Activation

\* C10, as stated: CounterInterrogationCmd, ReadCmd,
\* ClockSynchronizationCmd, TestCommand, ResetProcessCmd and
\* DelayAcquireCommand send the mandated cause (Request for the read
\* command, Activation for the others) whatever cause the caller passes,
\* and none rejects a call because of the caller's cause.
C10_CauseForcedAsStated ==
    call.fn \in ForcingCommands \cup {"DelayAcquireCommand"} =>
      /\ ret # ErrCmdCause
      /\ \A i \in 1..Len(sent) : sent[i].Coa.Cause = MandatedCause(call.fn)

\* C10, amended: CounterInterrogationCmd, ReadCmd, ClockSynchronizationCmd,
\* TestCommand and ResetProcessCmd never return ErrCmdCause and send the
\* caller's cause of transmission with Cause replaced by the mandated value;
\* DelayAcquireCommand returns ErrCmdCause, sending nothing, unless the
\* caller's cause is Spontaneous or Activation, and sends that cause as it
\* was passed.
C10_CauseForced ==
    /\ call.fn \in ForcingCommands =>
         /\ ret # ErrCmdCause
         /\ ret = ErrNil => Len(sent) = 1
         /\ \A i \in 1..Len(sent) :
              sent[i].Coa = [call.args.coa EXCEPT !.Cause = MandatedCause(call.fn)]
    /\ call.fn = "DelayAcquireCommand" =>
         /\ ret = ErrCmdCause <=> call.args.coa.Cause \notin {Spontaneous, Activation}
         /\ ret = ErrCmdCause => sent = <<>>
         /\ ret = ErrNil => Len(sent) = 1
         /\ \A i \in 1..Len(sent) : sent[i].Coa = call.args.coa

\* DelayAcquireCommand, given the cause Spontaneous, sent an ASDU with the
\* cause Spontaneous
C10_Witness ==
    /\ call.fn = "DelayAcquireCommand"
    /\ call.args.coa.Cause = Spontaneous
    /\ ret = ErrNil
    /\ Len(sent) = 1
    /\ sent[1].Coa.Cause = Spontaneous

-----------------------------------------------------------------------------
(* Step position with the time tag CP56Time2a.                             *)

\* StepCP56Time2a handed an ASDU to Send
StepCP56Sent == call.fn = "StepCP56Time2a" /\ sent # <<>>

\* C11: StepCP56Time2a sends an ASDU whose type identification is
\* M_ST_TB_1 (32), each object being the step position byte, the QDS byte
\* and a CP56Time2a time tag after its address, and GetStepPosition decodes
\* that ASDU without reaching its type-mismatch branch.
C11_StepCP56Time2aSendsStepType ==
    StepCP56Sent =>
      LET u == sent[1]
          infos == call.args.infos
          w == u.Params.InfoObjAddrSize
          At(from, len) == SubSeq(u.infoObj, from + 1, from + len)
      IN /\ u.Type = M_ST_TB_1
         /\ Len(u.infoObj) = Len(infos) * (w + 9)
         /\ \A i \in 1..Len(infos) :
              At((i - 1) * (w + 9) + w, 9) =
                <<StepPositionValue(infos[i].Value), Byte(infos[i].Qds)>>
                \o CP56Time2a(infos[i].Time)
         /\ got.fn = "GetStepPosition" => got.panic # ErrTypeIDNotMatch

-----------------------------------------------------------------------------
(* The bytes of the identifier fields and of the step position.            *)

\* C12: VariableStruct.Value() is (Number & 0x7F) | (0x80 if IsSequence)
\* for every byte value of Number, so that without IsSequence bit 7 of the
\* byte is never set, and ParseVariableStruct of the byte is the
\* VariableStruct again for every Number in 0..127 and both flags.
C12_VariableStructValue ==
    call.fn = "VariableStruct.Value" =>
      LET sf == call.args.sf IN
      /\ result.returned = BitOr(BitAnd(sf.Number, 127), IF sf.IsSequence THEN 128 ELSE 0)
      /\ ~sf.IsSequence => BitAnd(result.returned, 128) = 0
      /\ (got.fn = "ParseVariableStruct" /\ sf.Number \in 0..127) => got.infos[1] = sf

\* C13: CauseOfTransmission.Value() is (Cause & 0x3F) | (0x40 if
\* IsNegative) | (0x80 if IsTest) for every byte value of Cause, so that
\* bits 6 and 7 of the byte are set by the two flags only, and
\* ParseCauseOfTransmission of the byte is the CauseOfTransmission again
\* for every Cause in 0..63 and all flags.
C13_CauseOfTransmissionValue ==
    call.fn = "CauseOfTransmission.Value" =>
      LET sf == call.args.sf IN
      /\ result.returned = BitOr(BitOr(BitAnd(sf.Cause, 63), IF sf.IsNegative THEN 64 ELSE 0),
                        IF sf.IsTest THEN 128 ELSE 0)
      /\ BitAnd(result.returned, 64) = 64 <=> sf.IsNegative
      /\ BitAnd(result.returned, 128) = 128 <=> sf.IsTest
      /\ (got.fn = "ParseCauseOfTransmission" /\ sf.Cause \in 0..63) => got.infos[1] = sf

\* the value of a 7-bit two's complement pattern
SevenBit(p) == IF p >= 64 THEN p - 128 ELSE p

\* C14: ParseStepPosition(sp.Value()) = sp for every StepPosition with Val
\* in -64..63 and either HasTransient: the byte holds Val in 7 bits two's
\* complement and the flag in bit 7, and the parser sign-extends from bit 6
\* and keeps bit 7 out of Val, whatever byte it is given.
C14_StepPositionRoundTrip ==
    /\ (call.fn = "StepPosition.Value" /\ call.args.sf.Val \in (0 - 64)..63) =>
         LET sf == call.args.sf IN
         /\ SevenBit(result.returned % 128) = sf.Val
         /\ result.returned >= 128 <=> sf.HasTransient
         /\ got.fn = "ParseStepPosition" => got.infos[1] = sf
    /\ got.fn = "ParseStepPosition" =>
         /\ got.infos[1].Val = SevenBit(got.u % 128)
         /\ got.infos[1].HasTransient <=> got.u >= 128

\* the step position -1 in transient state was encoded as 0xFF and parsed
\* back
C14_Witness ==
    /\ call.fn = "StepPosition.Value"
    /\ call.args.sf = StepPosition(0 - 1, TRUE)
    /\ result.returned = 255
    /\ got.fn = "ParseStepPosition"
    /\ got.infos[1] = StepPosition(0 - 1, TRUE)

-----------------------------------------------------------------------------
(* The information object address on the wire.                             *)

\* the largest address of a width
MaxAddr(w) == CASE w = 1 -> 255 [] w = 2 -> 65535 [] w = 3 -> 16777215

\* C20: AppendInfoObjAddr returns ErrInfoObjAddrFit exactly when the
\* address exceeds the maximum of the configured width (255, 65535,
\* 16777215 for the widths 1, 2, 3) and ErrParam for any other width, on an
\* error it appends nothing, and otherwise it appends exactly width
\* little-endian bytes, which DecodeInfoObjAddr reads back as the same
\* address, advancing the cursor by width.
C20_InfoObjAddrFitsWidth ==
    call.fn = "AppendInfoObjAddr" =>
      LET u == call.args.u
          addr == call.args.addr
          w == u.Params.InfoObjAddrSize
      IN /\ w \notin {1, 2, 3} => ret = ErrParam
         /\ w \in {1, 2, 3} =>
              ret = (IF addr > MaxAddr(w) THEN ErrInfoObjAddrFit ELSE ErrNil)
         /\ ret # ErrNil => result.returned = u
         /\ ret = ErrNil =>
              /\ result.returned = [u EXCEPT !.infoObj = @ \o AddrBytes(addr, w)]
              /\ got.fn = "DecodeInfoObjAddr" =>
                   /\ got.panic = ErrNil
                   /\ got.infos[1].Ioa = addr
                   /\ got.infos[1].infoObj = Drop(got.u.infoObj, w)

\* the address 0x123456 was appended at width 3 behind two bytes, as
\* 56 34 12, and decoded again
C20_Witness ==
    /\ call.fn = "AppendInfoObjAddr"
    /\ call.args.addr = 1193046
    /\ call.args.u.Params.InfoObjAddrSize = 3
    /\ call.args.u.infoObj = <<7, 9>>
    /\ ret = ErrNil
    /\ result.returned.infoObj = <<7, 9, 86, 52, 18>>
    /\ got.fn = "DecodeInfoObjAddr"
    /\ got.infos[1] = [Ioa |-> 1193046, infoObj |-> <<170>>]

-----------------------------------------------------------------------------
(* APCI frames built and parsed.                                           *)

\* parse was given the frame the constructor returned
FrameParsed == call.fn \in Constructors /\ ret = ErrNil /\ got.fn = "parse"

\* C15: for all 16-bit sendSN and rcvSN and every ASDU of at most 249
\* bytes, newIFrame returns a frame whose control octets 1 and 3 have bit 0
\* clear, and parse of it returns an I-frame with the sequence numbers
\* sendSN mod 2^15 and rcvSN mod 2^15 and the unchanged ASDU bytes.
C15_IFrameRoundTrip ==
    (call.fn = "newIFrame" /\ Len(call.args.asdus) <= 249) =>
      /\ ret = ErrNil
      /\ BitAnd(result.returned[3], 1) = 0
      /\ BitAnd(result.returned[5], 1) = 0
      /\ got.fn = "parse" =>
           /\ got.panic = ErrNil
           /\ got.infos[1] =
                [apci |-> iAPCI(call.args.sendSN % 32768, call.args.RcvSN % 32768),
                 asdu |-> call.args.asdus]

\* an I-frame with sendSN 32769, rcvSN 65535 and an ASDU of 249 bytes was
\* parsed as I[1, 32767] with the ASDU
C15_Witness ==
    /\ FrameParsed
    /\ call.fn = "newIFrame"
    /\ call.args.sendSN = 32769
    /\ call.args.RcvSN = 65535
    /\ Len(call.args.asdus) = 249
    /\ got.infos[1] = [apci |-> iAPCI(1, 32767), asdu |-> call.args.asdus]

\* the six functions of a U-frame
UFunctions ==
    {uStartDtActive, uStartDtConfirm, uStopDtActive, uStopDtConfirm, uTestFrActive,
     uTestFrConfirm}

\* the frame type parse returns for the frames of a constructor
FamilyOfFrame(fn) ==
    CASE fn = "newIFrame" -> "iAPCI"
      [] fn = "newSFrame" -> "sAPCI"
      [] fn = "newUFrame" -> "uAPCI"

\* C16: for each of the six U-frame functions f (0x04, 0x08, 0x10, 0x20,
\* 0x40, 0x80) newUFrame(f) is the 6-byte APDU 68 04 (f|03) 00 00 00 and
\* parse returns a U-frame with function f; for every rcvSN
\* parse(newSFrame(rcvSN)) is an S-frame with rcvSN mod 2^15; and parse
\* never returns a frame of another family than the constructor's.
C16_UAndSFrames ==
    /\ (call.fn = "newUFrame" /\ call.args.which \in UFunctions) =>
         /\ result.returned = <<104, 4, call.args.which + 3, 0, 0, 0>>
         /\ got.fn = "parse" =>
              got.infos[1] = [apci |-> uAPCI(call.args.which), asdu |-> <<>>]
    /\ (call.fn = "newSFrame" /\ got.fn = "parse") =>
         got.infos[1] = [apci |-> sAPCI(call.args.RcvSN % 32768), asdu |-> <<>>]
    /\ FrameParsed =>
         /\ got.panic = ErrNil
         /\ got.infos[1].apci.frame = FamilyOfFrame(call.fn)

\* newUFrame(STARTDT_ACT) returned 68 04 07 00 00 00, parsed as the U-frame
\* with function STARTDT_ACT
C16_Witness ==
    /\ FrameParsed
    /\ call.fn = "newUFrame"
    /\ call.args.which = uStartDtActive
    /\ result.returned = <<104, 4, 7, 0, 0, 0>>
    /\ got.infos[1].apci = uAPCI(uStartDtActive)

\* C18: newIFrame returns an error and no frame when the ASDU is longer
\* than 249 bytes; otherwise the APDU it returns starts with 0x68, has the
\* length octet len(ASDU) + 4, at most 253, and the total length
\* len(ASDU) + 6, at most 255.
C18_IFrameLength ==
    call.fn = "newIFrame" =>
      LET n == Len(call.args.asdus)
          b == result.returned
      IN IF n > 249 THEN ret # ErrNil /\ b = <<>>
         ELSE /\ ret = ErrNil
              /\ b[1] = 104
              /\ b[2] = n + 4
              /\ b[2] <= 253
              /\ Len(b) = n + 6
              /\ Len(b) <= APDUSizeMax

\* newIFrame refused an ASDU of 250 bytes
C18_Witness ==
    /\ call.fn = "newIFrame"
    /\ Len(call.args.asdus) = 250
    /\ ret = ErrASDUFiledLarge
    /\ result.returned = <<>>

-----------------------------------------------------------------------------
(* Config.Valid.                                                           *)

\* the fields of Config in the order Valid goes through them
ConfigFields ==
    <<"ConnectTimeout0", "SendUnAckLimitK", "SendUnAckTimeout1", "RecvUnAckLimitW",
      "RecvUnAckTimeout2", "IdleTimeout3">>

\* the range of a field: t0, t1, t2 in [1, 255] s, k and w in [1, 32767],
\* t3 in [1 s, 48 h]
InRange(f, x) ==
    CASE f \in {"ConnectTimeout0", "SendUnAckTimeout1", "RecvUnAckTimeout2"} ->
           x >= 1000 /\ x <= 255000
      [] f \in {"SendUnAckLimitK", "RecvUnAckLimitW"} -> x >= 1 /\ x <= 32767
      [] f = "IdleTimeout3" -> x >= 1000 /\ x <= 48 * 3600 * 1000

\* the IEC defaults: t0 = 30 s, k = 12, t1 = 15 s, w = 8, t2 = 10 s, t3 = 20 s
IECDefault == Config(30000, 12, 15000, 8, 10000, 20000)

\* Valid was called on a Config
ConfigValidated == call.fn = "Config.Valid" /\ ~call.args.sf.isNil

\* field i of the Config given is set and outside its range
Offending(i) ==
    LET x == call.args.sf.v[ConfigFields[i]] IN x # 0 /\ ~InRange(ConfigFields[i], x)

-----------------------------------------------------------------------------
(* The size table.                                                         *)

\* the type identifications the catalog assigns a name to
AssignedTypeIDs ==
    (M_SP_NA_1..M_ME_ND_1) \cup (M_SP_TB_1..S_IT_TC_1) \cup (C_SC_NA_1..C_BO_NA_1)
        \cup (C_SC_TA_1..C_BO_TA_1) \cup {M_EI_NA_1} \cup (S_CH_NA_1..S_ER_NA_1)
        \cup (S_US_NA_1..S_UC_NA_1) \cup (C_IC_NA_1..C_TS_TA_1)
        \cup (P_ME_NA_1..P_AC_NA_1) \cup (F_FR_NA_1..F_SC_NB_1)

\* C21: GetInfoObjSize returns a size in 0..13 and no error for every
\* assigned type identification except F_SG_NA_1, and ErrTypeIdentifier for
\* F_SG_NA_1 and for every unassigned value.
C21_GetInfoObjSize ==
    call.fn = "GetInfoObjSize" =>
        IF call.args.id \in AssignedTypeIDs \ {F_SG_NA_1}
        THEN ret = ErrNil /\ result.returned \in 0..13
        ELSE ret = ErrTypeIdentifier

-----------------------------------------------------------------------------
(* The logger.                                                             *)

Levels == {"Critical", "Error", "Warn", "Debug"}

\* the argument of the most recent call of fn among the first i calls on
\* the logger that satisfies keep, none if there is no such call
MostRecent(fn, i, keep(_), none) ==
    LET I == {j \in 1..i : logCalls[j].fn = fn /\ keep(logCalls[j].arg)} IN
    IF I = {} THEN none
    ELSE logCalls[CHOOSE j \in I : \A l \in I : l <= j].arg

\* the i-th call on the logger is a level call made when the most recent
\* LogMode call was LogMode(true)
Enabled(i) ==
    /\ logCalls[i].fn \in Levels
    /\ MostRecent("LogMode", i, LAMBDA a : TRUE, "false") = "true"

\* the provider in place at the i-th call: the last non-nil provider set,
\* the provider of NewLogger if none was
InPlace(i) == MostRecent("SetLogProvider", i, LAMBDA a : a # "nil", defaultLogger)

\* C22: a call of Critical, Error, Warn or Debug is forwarded to the
\* provider if and only if the most recent LogMode call was LogMode(true);
\* a logger of NewLogger forwards nothing before LogMode(true), LogMode(false)
\* stops the forwarding of all four levels, and SetLogProvider(nil) leaves
\* the current provider in place.
C22_ForwardedIffEnabled ==
    LET calls == [i \in 1..Len(logCalls) |-> i]
        kept == SelectSeq(calls, Enabled)
    IN forwarded = [j \in 1..Len(kept) |->
                       [provider |-> InPlace(kept[j]), level |-> logCalls[kept[j]].fn]]

\* LogMode(true), SetLogProvider(nil), a forwarded call, LogMode(false) and
\* a call that is not forwarded
C22_Witness ==
    /\ Len(logCalls) = 5
    /\ logCalls[1] = [fn |-> "LogMode", arg |-> "true"]
    /\ logCalls[2] = [fn |-> "SetLogProvider", arg |-> "nil"]
    /\ logCalls[3].fn \in Levels
    /\ logCalls[4] = [fn |-> "LogMode", arg |-> "false"]
    /\ logCalls[5].fn \in Levels
    /\ forwarded = <<[provider |-> defaultLogger, level |-> logCalls[3].fn]>>

-----------------------------------------------------------------------------
(* Errors of a build and the transport.                                    *)

SystemBuilders ==
    {"InterrogationCmd", "CounterInterrogationCmd", "ReadCmd", "ClockSynchronizationCmd",
     "TestCommand", "ResetProcessCmd", "DelayAcquireCommand", "TestCommandCP56Time2a",
     "ParameterActivation", "EndOfInitialization"}

BuildRoutines ==
    MonitoringBuilders \cup CommandBuilders \cup ParameterBuilders \cup SystemBuilders

ValidationErrors ==
    {ErrNotAnyObjInfo, ErrCmdCause, ErrLengthOutOfRange, ErrInfoObjAddrFit,
     ErrTypeIDNotMatch, ErrTypeIdentifier, ErrParam}

\* C25: a build routine hands at most one ASDU to Connect.Send; it hands
\* none when it returns a validation error, also one that arises at a
\* later record of the list; and when it has handed one, it returns what
\* Send returned.
C25_SendOnceAsLastStep ==
    call.fn \in BuildRoutines =>
        /\ Len(sent) <= 1
        /\ ret \in ValidationErrors => sent = <<>>
        /\ sent # <<>> => ret = call.args.c.sendErr

\* a list of two records whose first address fits the width and whose
\* second does not: the error of the second pass, and nothing sent
C25_Witness ==
    /\ call.fn \in ListBuilders
    /\ ~call.args.isSequence
    /\ Len(call.args.infos) = 2
    /\ ParamsValid(call.args.c.params) = ErrNil
    /\ call.args.infos[1].Ioa <= MaxAddr(call.args.c.params.InfoObjAddrSize)
    /\ call.args.infos[2].Ioa > MaxAddr(call.args.c.params.InfoObjAddrSize)
    /\ ret = ErrInfoObjAddrFit
    /\ sent = <<>>

-----------------------------------------------------------------------------
(* The window limits and the Config after an error.                        *)

\* C26: after Config.Valid has returned nil, w (RecvUnAckLimitW) does not
\* exceed two thirds of k (SendUnAckLimitK).
C26_WWithinTwoThirdsOfK ==
    (ConfigValidated /\ ret = ErrNil) =>
        3 * result.returned.RecvUnAckLimitW <= 2 * result.returned.SendUnAckLimitK

\* C29: when Config.Valid returns an error, the Config is as it was before
\* the call: no field has been replaced by its default.
C29_ConfigUnchangedOnError ==
    (ConfigValidated /\ ret # ErrNil) => result.returned = call.args.sf.v

-----------------------------------------------------------------------------
(* The quality descriptor on the wire.                                     *)

\* the build routines whose objects hold a QDS byte
QdsBuilders ==
    {fn \in ListBuilders \cup {"PackedSinglePointWithSCD"} :
        ParserOf(fn) \in {"GetSinglePoint", "GetDoublePoint", "GetStepPosition",
                          "GetBitString32", "GetMeasuredValueNormal",
                          "GetMeasuredValueScaled", "GetMeasuredValueFloat",
                          "GetPackedSinglePointWithSCD"}
        /\ fn # "MeasuredValueNormalNoQuality"}

\* where the byte with the quality descriptor stands in an object of the
\* routine's type, after the address
QdsOffset(fn) ==
    CASE ParserOf(fn) \in {"GetSinglePoint", "GetDoublePoint"} -> 1
      [] ParserOf(fn) = "GetStepPosition" -> 2
      [] ParserOf(fn) \in {"GetMeasuredValueNormal", "GetMeasuredValueScaled"} -> 3
      [] OTHER -> 5

\* the bits of that byte which hold the value in SIQ and DIQ, where the
\* descriptor has no overflow flag
ValueBits(fn) ==
    CASE ParserOf(fn) = "GetSinglePoint" -> 1
      [] ParserOf(fn) = "GetDoublePoint" -> 3
      [] OTHER -> 0

\* the flags of a quality descriptor: OV (bit 0), BL, SB, NT, IV (bits 4..7)
QdsDefinedBits(fn) == IF ValueBits(fn) = 0 THEN 241 ELSE 240

\* the byte with the quality descriptor of the i-th object of the ASDU sent
QdsByteSent(i) ==
    LET u == sent[1]
        N == Len(call.args.infos)
        w == u.Params.InfoObjAddrSize
        size == IF u.Variable.IsSequence THEN (Len(u.infoObj) - w) \div N
                ELSE (Len(u.infoObj) \div N) - w
        at == IF u.Variable.IsSequence THEN w + (i - 1) * size
              ELSE (i - 1) * (w + size) + w
    IN u.infoObj[at + QdsOffset(call.fn)]

\* C27: every monitoring build routine that emits a QDS byte emits it with
\* the reserved bits 1..3 cleared whatever Qds it is given: on the wire the
\* descriptor is the Qds given under one mask, the defined flags (bit 0 and
\* bits 4..7), for every such routine.
C27_ReservedQdsBitsCleared ==
    (call.fn \in QdsBuilders /\ sent # <<>>) =>
        \A i \in 1..Len(call.args.infos) :
            BitAnd(QdsByteSent(i), 255 - ValueBits(call.fn))
                = BitAnd(call.args.infos[i].Qds, QdsDefinedBits(call.fn))

\* C28: for the three protection-event families, the flags EI (bit 3) and
\* BL, SB, NT, IV (bits 4..7) of the Qdp given to the build routine are the
\* Qdp the matching Get* parser returns, and no reserved bit 0..2 is set in
\* what it returns.
C28_QdpOfParseIsQdpOfBuild ==
    (ParsedBack /\ call.fn \in EventBuilders \cup PackedBuilders /\ got.panic = ErrNil) =>
        /\ Len(got.infos) = Len(call.args.infos)
        /\ \A i \in 1..Len(got.infos) :
             got.infos[i].Qdp = BitAnd(call.args.infos[i].Qdp, 248)

-----------------------------------------------------------------------------
(* Addresses in sequence mode.                                             *)

\* C30: every address a list-returning Get* parser returns lies within the
\* range of the width of the ASDU (at most 255, 65535, 16777215 for width
\* 1, 2, 3), also the addresses it derives in sequence mode; and a build in
\* sequence mode whose first address + N - 1 exceeds that maximum is
\* rejected with ErrInfoObjAddrFit (or by an earlier test of the routine)
\* and nothing is sent.
C30_AddressesWithinWidth ==
    /\ (ListParsed /\ got.u.Params.InfoObjAddrSize \in 1..3) =>
         \A i \in 1..Len(got.infos) :
             got.infos[i].Ioa <= MaxAddr(got.u.Params.InfoObjAddrSize)
    /\ (/\ call.fn \in ListBuilders
        /\ call.args.isSequence
        /\ call.args.infos # <<>>
        /\ ParamsValid(call.args.c.params) = ErrNil
        /\ call.args.infos[1].Ioa + Len(call.args.infos) - 1
             > MaxAddr(call.args.c.params.InfoObjAddrSize)) =>
         (ret \in {ErrCmdCause, ErrLengthOutOfRange, ErrInfoObjAddrFit} /\ sent = <<>>)

====
